---- MODULE Spec2Model ----
(***************************************************************************)
(* Model of the compatible-mode tool-call pipeline of js-llmcord:          *)
(*   - the streaming tag scanner and dispatch loop of                      *)
(*     streamTextWithCompatibleTools (generator textStreamOut), and        *)
(*   - the buffered variant runCompatibleStream / streamOnce /             *)
(*     flushToolMarkup.                                                    *)
(* Text is a sequence of one-character strings, so that prefix, suffix and *)
(* pattern checks are computed character by character as the code does.    *)
(***************************************************************************)
EXTENDS Integers, Sequences, FiniteSets, TLC

(***************************************************************************)
(* Bounds of the model.                                                    *)
(***************************************************************************)
\* model invocations explored for textStreamOut (its while(true) has no bound)
MaxCalls == 2
\* maxToolLoops of runCompatibleStream (config.max_steps, default 10)
MaxToolLoops == 2

(***************************************************************************)
(* Text helpers.                                                           *)
(***************************************************************************)
Min(a, b) == IF a < b THEN a ELSE b

\* s.slice(from) with a 0-based index, as a sequence
SliceFrom(s, from) == SubSeq(s, from + 1, Len(s))

\* s.slice(from, to), 0-based, end exclusive
Slice(s, from, to) == SubSeq(s, from + 1, to)

\* whether lit occurs in s at the 1-based position i
StartsWithAt(s, i, lit) ==
  /\ i >= 1
  /\ i + Len(lit) - 1 <= Len(s)
  /\ \A k \in 1..Len(lit) : s[i + k - 1] = lit[k]

\* the least element of a non-empty set of integers
Least(S) == CHOOSE x \in S : \A y \in S : x <= y

\* s.indexOf(lit): 0-based index of the first occurrence, -1 when absent
IndexOf(s, lit) ==
  LET hits == {i \in 1..(Len(s) + 1) : StartsWithAt(s, i, lit)}
  IN IF hits = {} THEN -1 ELSE Least(hits) - 1

RECURSIVE Flat(_)
\* the concatenation of a sequence of texts
Flat(ss) == IF ss = <<>> THEN <<>> ELSE Head(ss) \o Flat(Tail(ss))

\* the regular expression class \s, over the characters the model uses
IsSpace(c) == c \in {" ", "\n", "\t"}

(***************************************************************************)
(* The protocol literals.                                                  *)
(***************************************************************************)
\* const start = "<tool-call"
ToolCallStartLiteral == <<"<", "t", "o", "o", "l", "-", "c", "a", "l", "l">>

\* const end = "</tool-call>"
ToolCallEndLiteral == <<"<", "/", "t", "o", "o", "l", "-", "c", "a", "l", "l", ">">>

\* the literal tool=" of the pattern
ToolAttrLiteral == <<"t", "o", "o", "l", "=", "\"">>

\* maybeToolCallStart requiring the whole literal, as text.startsWith(start) would
maybeToolCallStart_startsWith(text) == StartsWithAt(text, 1, ToolCallStartLiteral)

maybeToolCallStart(text) ==
  \A i \in 1..Min(Len(text), Len(ToolCallStartLiteral)) :
     text[i] = ToolCallStartLiteral[i]

maybeToolCallEnd(text) ==
  \A i \in 0..(Min(Len(text), Len(ToolCallEndLiteral)) - 1) :
     text[Len(text) - i] = ToolCallEndLiteral[Len(ToolCallEndLiteral) - i]

(***************************************************************************)
(* The pattern /<tool-call\s+tool="([^"]+)">([\s\S]*?)<\/tool-call>/ .      *)
(***************************************************************************)
NoMatch == [found |-> FALSE, index |-> 0, full |-> <<>>, name |-> <<>>, payload |-> <<>>]

\* the attempt to match the pattern at the 1-based position i of s
MatchAt(s, i) ==
  IF ~StartsWithAt(s, i, ToolCallStartLiteral) THEN NoMatch
  ELSE
    LET ws == i + Len(ToolCallStartLiteral)
        nonSpace == {k \in ws..(Len(s) + 1) : k = Len(s) + 1 \/ ~IsSpace(s[k])}
        attr == Least(nonSpace)
    IN IF attr = ws \/ ~StartsWithAt(s, attr, ToolAttrLiteral) THEN NoMatch
       ELSE
         LET nameStart == attr + Len(ToolAttrLiteral)
             quotes == {q \in nameStart..Len(s) : s[q] = "\""}
         IN IF quotes = {} THEN NoMatch
            ELSE
              LET q == Least(quotes)
              IN IF q = nameStart \/ ~StartsWithAt(s, q + 1, <<">">>) THEN NoMatch
                 ELSE
                   LET payStart == q + 2
                       closers == {c \in payStart..(Len(s) + 1) :
                                      StartsWithAt(s, c, ToolCallEndLiteral)}
                   IN IF closers = {} THEN NoMatch
                      ELSE
                        LET c == Least(closers)
                        IN [found |-> TRUE,
                            index |-> i - 1,
                            full |-> SubSeq(s, i, c + Len(ToolCallEndLiteral) - 1),
                            name |-> SubSeq(s, nameStart, q - 1),
                            payload |-> SubSeq(s, payStart, c - 1)]

\* the leftmost match at or after the 0-based index from (lastIndex of a /g pattern)
MatchFrom(s, from) ==
  LET hits == {i \in (from + 1)..Len(s) : MatchAt(s, i).found}
  IN IF hits = {} THEN NoMatch ELSE MatchAt(s, Least(hits))

\* buffer.match(TOOL_CALL_SINGLE)
TOOL_CALL_SINGLE(s) == MatchFrom(s, 0)

(***************************************************************************)
(* JSON values and JSON.parse, over the characters the model uses          *)
(* (strings without escapes, integers, true/false/null, arrays, objects).  *)
(* Every value has the same three fields: its kind, its characters (a      *)
(* string's content, a number's digits) and its members (array elements,   *)
(* object entries).                                                        *)
(***************************************************************************)
JVal(k, s, m) == [k |-> k, s |-> s, m |-> m]
JUndefined == JVal("undefined", <<>>, <<>>)
JString(s) == JVal("string", s, <<>>)
ParseFail == [ok |-> FALSE, val |-> JUndefined, next |-> 0]
ParseOk(v, n) == [ok |-> TRUE, val |-> v, next |-> n]
Digits == {"0", "1", "2", "3", "4", "5", "6", "7", "8", "9"}

\* the first position at or after i that holds no white space (Len(s)+1 at the end)
SkipWs(s, i) == Least({k \in i..(Len(s) + 1) : k = Len(s) + 1 \/ ~IsSpace(s[k])})

\* a JSON string starting at the quote at position i
ParseString(s, i) ==
  LET quotes == {q \in (i + 1)..Len(s) : s[q] = "\""}
  IN IF ~StartsWithAt(s, i, <<"\"">>) \/ quotes = {} THEN ParseFail
     ELSE LET q == Least(quotes)
              body == SubSeq(s, i + 1, q - 1)
          IN IF \E k \in 1..Len(body) : body[k] \in {"\\", "\n", "\t"}
             THEN ParseFail
             ELSE ParseOk(JString(body), q + 1)

\* a JSON integer starting at position i
ParseNumber(s, i) ==
  LET d == IF StartsWithAt(s, i, <<"-">>) THEN i + 1 ELSE i
      stop == Least({k \in d..(Len(s) + 1) : k = Len(s) + 1 \/ s[k] \notin Digits})
  IN IF stop = d \/ (s[d] = "0" /\ stop > d + 1) THEN ParseFail
     ELSE ParseOk(JVal("number", SubSeq(s, i, stop - 1), <<>>), stop)

RECURSIVE ParseValue(_, _)
RECURSIVE ParseMembers(_, _, _)
RECURSIVE ParseElements(_, _, _)

\* the JSON value starting at position i, after white space
ParseValue(s, i0) ==
  LET i == SkipWs(s, i0)
  IN IF i > Len(s) THEN ParseFail
     ELSE IF s[i] = "\"" THEN ParseString(s, i)
     ELSE IF s[i] = "-" \/ s[i] \in Digits THEN ParseNumber(s, i)
     ELSE IF StartsWithAt(s, i, <<"t", "r", "u", "e">>)
          THEN ParseOk(JVal("true", <<>>, <<>>), i + 4)
     ELSE IF StartsWithAt(s, i, <<"f", "a", "l", "s", "e">>)
          THEN ParseOk(JVal("false", <<>>, <<>>), i + 5)
     ELSE IF StartsWithAt(s, i, <<"n", "u", "l", "l">>)
          THEN ParseOk(JVal("null", <<>>, <<>>), i + 4)
     ELSE IF s[i] = "{"
          THEN LET j == SkipWs(s, i + 1)
               IN IF StartsWithAt(s, j, <<"}">>)
                  THEN ParseOk(JVal("object", <<>>, <<>>), j + 1)
                  ELSE ParseMembers(s, j, <<>>)
     ELSE IF s[i] = "["
          THEN LET j == SkipWs(s, i + 1)
               IN IF StartsWithAt(s, j, <<"]">>)
                  THEN ParseOk(JVal("array", <<>>, <<>>), j + 1)
                  ELSE ParseElements(s, j, <<>>)
     ELSE ParseFail

\* the entries of an object from position i on, acc the entries read so far
ParseMembers(s, i, acc) ==
  LET key == ParseString(s, SkipWs(s, i))
  IN IF ~key.ok THEN ParseFail
     ELSE
       LET colon == SkipWs(s, key.next)
       IN IF ~StartsWithAt(s, colon, <<":">>) THEN ParseFail
          ELSE
            LET v == ParseValue(s, colon + 1)
            IN IF ~v.ok THEN ParseFail
               ELSE
                 LET sep == SkipWs(s, v.next)
                     all == Append(acc, [key |-> key.val.s, val |-> v.val])
                 IN IF StartsWithAt(s, sep, <<"}">>)
                    THEN ParseOk(JVal("object", <<>>, all), sep + 1)
                    ELSE IF StartsWithAt(s, sep, <<",">>)
                    THEN ParseMembers(s, sep + 1, all)
                    ELSE ParseFail

\* the elements of an array from position i on, acc the elements read so far
ParseElements(s, i, acc) ==
  LET v == ParseValue(s, i)
  IN IF ~v.ok THEN ParseFail
     ELSE
       LET sep == SkipWs(s, v.next)
           all == Append(acc, [key |-> <<>>, val |-> v.val])
       IN IF StartsWithAt(s, sep, <<"]">>)
          THEN ParseOk(JVal("array", <<>>, all), sep + 1)
          ELSE IF StartsWithAt(s, sep, <<",">>)
          THEN ParseElements(s, sep + 1, all)
          ELSE ParseFail

\* JSON.parse(text): ok is FALSE where JSON.parse throws
JSONparse(text) ==
  LET v == ParseValue(text, 1)
  IN IF v.ok /\ SkipWs(text, v.next) = Len(text) + 1 THEN v ELSE ParseFail

\* raw.trim()
Trim(raw) ==
  LET keep == {k \in 1..Len(raw) : ~IsSpace(raw[k])}
  IN IF keep = {} THEN <<>>
     ELSE SubSeq(raw, Least(keep), CHOOSE x \in keep : \A y \in keep : y <= x)

\* tryParseJson of streamTextWithCompatibleTools: undefined for an empty payload
tryParseJson(raw) ==
  IF raw = <<>> THEN JUndefined
  ELSE LET trimmed == Trim(raw)
       IN IF trimmed = <<>> THEN JString(<<>>)
          ELSE LET parsed == JSONparse(trimmed)
               IN IF parsed.ok THEN parsed.val ELSE JString(trimmed)

(***************************************************************************)
(* The boundary separator.                                                 *)
(***************************************************************************)
\* the backquote character, which a TLA+ string cannot hold
Backquote == "backquote"

\* shouldInsertBoundarySeparator without the comparison of the two characters
shouldInsertBoundarySeparator_anyNext(prevLastChar, nextFirstChar) ==
  IF prevLastChar = "" \/ nextFirstChar = "" THEN FALSE
  ELSE prevLastChar \in {"*", "_", Backquote, "~", "$"}

\* prevLastChar and nextFirstChar are one-character strings, "" when absent
shouldInsertBoundarySeparator(prevLastChar, nextFirstChar) ==
  IF prevLastChar = "" \/ nextFirstChar = "" THEN FALSE
  ELSE prevLastChar = nextFirstChar /\ prevLastChar \in {"*", "_", Backquote, "~", "$"}

\* the separator to yield before nextChunk: <<" ">> or the empty text
maybeYieldBoundarySeparator(prevLastChar, nextChunk) ==
  IF nextChunk = <<>> THEN <<>>
  ELSE IF shouldInsertBoundarySeparator(prevLastChar, nextChunk[1])
       THEN <<" ">>
       ELSE <<>>

(***************************************************************************)
(* The tool registry and the model's possible responses.                   *)
(***************************************************************************)
FETCH == <<"f", "e", "t", "c", "h">>
NOEXEC == <<"n", "x">>
UNKNOWN == <<"z">>

\* tools: fetch can be executed, nx is registered without an execute function
ToolRegistry == {[name |-> FETCH, hasExecute |-> TRUE],
                 [name |-> NOEXEC, hasExecute |-> FALSE]}

\* toolName && tools[toolName] && tool.execute
Executable(toolName) ==
  /\ toolName # <<>>
  /\ \E tool \in ToolRegistry : tool.name = toolName /\ tool.hasExecute

\* what an awaited tool.execute can do: return a value or throw
ToolOutcomes == {[threw |-> FALSE, value |-> "page"],
                 [threw |-> TRUE, value |-> "Error: boom"]}

\* <tool-call tool="NAME">PAYLOAD</tool-call>
Tag(name, payload) ==
  ToolCallStartLiteral \o <<" ">> \o ToolAttrLiteral \o name \o <<"\"", ">">>
    \o payload \o ToolCallEndLiteral

UrlPayload == <<"{", "\"", "u", "r", "l", "\"", ":", "\"", "x", "\"", "}">>
FetchTag == Tag(FETCH, UrlPayload)

\* the texts a model response is drawn from
Responses ==
  { FetchTag,
    <<"h", "i">>,
    <<"a">> \o Tag(FETCH, <<"1">>),
    Tag(FETCH, <<"1">>) \o <<"b">> \o ToolCallEndLiteral \o <<"c">>,
    ToolCallStartLiteral \o <<" ", "x", ">">> \o ToolCallEndLiteral \o <<"d">>,
    <<"<", "b", "*">>,
    <<"*">> \o ToolCallStartLiteral \o <<" ", "t">>,
    ToolCallStartLiteral \o <<" ", "t">>,
    Tag(UNKNOWN, <<>>),
    Tag(NOEXEC, <<"1">>),
    <<"<">> \o Tag(FETCH, <<"1">>),
    Tag(FETCH, <<"1">>) \o Tag(FETCH, <<"2">>),
    Tag(FETCH, <<" ", "q">>),
    Tag(FETCH, <<>>) }

(***************************************************************************)
(* The markdown completer (token-complete.ts).  A text is a sequence of    *)
(* one-character strings; a placeholder that escapeCodeBlocks writes,      *)
(* "\x00FENCE<idx>\x00" and the like, is a single element of the escaped   *)
(* text, and the k-th placeholder of a type stands for the k-th code block *)
(* of that type.                                                           *)
(***************************************************************************)
\* the three backticks of a code fence
Fence3 == <<Backquote, Backquote, Backquote>>

\* the regular expression class \w, over the characters the model uses
IsWordChar(c) ==
  c \in {"a", "b", "c", "d", "e", "f", "g", "h", "j", "s", "_"} \cup Digits

IsPlaceholder(c) == c \in {"<FENCE>", "<FENCECONTENT>", "<INLINE>", "<INLINECONTENT>"}

\* the position where the run of \w characters that starts at i ends: the
\* first position at or after i that holds another character
RECURSIVE WordRunEnd(_, _)
WordRunEnd(s, i) ==
  IF i > Len(s) \/ ~IsWordChar(s[i]) THEN i ELSE WordRunEnd(s, i + 1)

\* the position of the first occurrence of lit in s at or after i, 0 when
\* there is none
RECURSIVE FindFrom(_, _, _)
FindFrom(s, i, lit) ==
  IF i + Len(lit) - 1 > Len(s) THEN 0
  ELSE IF StartsWithAt(s, i, lit) THEN i
  ELSE FindFrom(s, i + 1, lit)

\* the match of /```(\w*)(\n?)([\s\S]*?)(```|$)/ that starts at i: langEnd
\* is the position after the language, from the position of the content,
\* closeAt the position of the closing fence (0: the match runs to the end)
FenceMatchAt(text, i) ==
  LET langEnd == WordRunEnd(text, i + 3)
      from == IF langEnd <= Len(text) /\ text[langEnd] = "\n" THEN langEnd + 1 ELSE langEnd
      closeAt == FindFrom(text, from, Fence3)
  IN [lang    |-> SubSeq(text, i + 3, langEnd - 1),
      newline |-> SubSeq(text, langEnd, from - 1),
      content |-> SubSeq(text, from, IF closeAt = 0 THEN Len(text) ELSE closeAt - 1),
      closed  |-> closeAt # 0,
      next    |-> IF closeAt = 0 THEN Len(text) + 1 ELSE closeAt + 3]

\* result.replace(/```(\w*)(\n?)([\s\S]*?)(```|$)/g, ...): the text from
\* position i on, after escaped, with the blocks pushed so far
RECURSIVE EscapeFences(_, _, _, _)
EscapeFence(text, m, escaped, blocks) ==
  EscapeFences(text, m.next,
               escaped \o (IF m.closed THEN <<"<FENCE>">>
                           ELSE Fence3 \o m.lang \o m.newline \o <<"<FENCECONTENT>">>),
               Append(blocks, [type |-> "fence", content |-> m.content,
                               lang |-> m.lang, closed |-> m.closed]))

EscapeFences(text, i, escaped, blocks) ==
  IF i > Len(text) THEN [escaped |-> escaped, codeBlocks |-> blocks]
  ELSE IF StartsWithAt(text, i, Fence3)
       THEN EscapeFence(text, FenceMatchAt(text, i), escaped, blocks)
       ELSE EscapeFences(text, i + 1, Append(escaped, text[i]), blocks)

\* the position where the run of [^`\x00] that starts at i ends
RECURSIVE InlineRunEnd(_, _)
InlineRunEnd(s, i) ==
  IF i > Len(s) \/ s[i] = Backquote \/ IsPlaceholder(s[i]) THEN i
  ELSE InlineRunEnd(s, i + 1)

\* result.replace(/`([^`\x00]+)(`|$)/g, ...)
RECURSIVE EscapeInline(_, _, _, _)
\* a backtick at i whose run of [^`\x00] ends before contentEnd
EscapeBacktick(text, i, contentEnd, escaped, blocks) ==
  IF contentEnd = i + 1 \/ (contentEnd <= Len(text) /\ text[contentEnd] # Backquote)
  THEN EscapeInline(text, i + 1, Append(escaped, text[i]), blocks)
  ELSE EscapeInline(text, contentEnd + 1,
                    escaped \o (IF contentEnd <= Len(text) THEN <<"<INLINE>">>
                                ELSE <<Backquote, "<INLINECONTENT>">>),
                    Append(blocks, [type |-> "inline",
                                    content |-> SubSeq(text, i + 1, contentEnd - 1),
                                    lang |-> <<>>, closed |-> contentEnd <= Len(text)]))

EscapeInline(text, i, escaped, blocks) ==
  IF i > Len(text) THEN [escaped |-> escaped, codeBlocks |-> blocks]
  ELSE IF text[i] = Backquote
       THEN EscapeBacktick(text, i, InlineRunEnd(text, i + 1), escaped, blocks)
       ELSE EscapeInline(text, i + 1, Append(escaped, text[i]), blocks)

escapeCodeBlocks(text) ==
  LET fenced == EscapeFences(text, 1, <<>>, <<>>)
  IN EscapeInline(fenced.escaped, 1, <<>>, fenced.codeBlocks)

\* restoreCodeBlocks that closes the fence whose content it puts back
Restored_closesFence(ph, block) ==
  IF ph = "<FENCE>"
  THEN Fence3 \o (IF block.lang # <<>> THEN Append(block.lang, "\n") ELSE <<>>)
              \o block.content \o Fence3
  ELSE IF ph = "<INLINE>" THEN <<Backquote>> \o block.content \o <<Backquote>>
  ELSE IF ph = "<FENCECONTENT>" THEN block.content \o <<"\n">> \o Fence3
  ELSE block.content

\* what restoreCodeBlocks replaces a placeholder with
Restored(ph, block) ==
  IF ph = "<FENCE>"
  THEN Fence3 \o (IF block.lang # <<>> THEN Append(block.lang, "\n") ELSE <<>>)
              \o block.content \o Fence3
  ELSE IF ph = "<INLINE>" THEN <<Backquote>> \o block.content \o <<Backquote>>
  ELSE block.content

\* the text with its placeholders replaced, each by the next block of its type
RECURSIVE RestoreFrom(_, _, _)
RestoreFrom(text, fences, inlines) ==
  IF text = <<>> THEN <<>>
  ELSE IF ~IsPlaceholder(Head(text))
       THEN <<Head(text)>> \o RestoreFrom(Tail(text), fences, inlines)
  ELSE IF Head(text) \in {"<FENCE>", "<FENCECONTENT>"}
       THEN Restored(Head(text), Head(fences)) \o RestoreFrom(Tail(text), Tail(fences), inlines)
       ELSE Restored(Head(text), Head(inlines)) \o RestoreFrom(Tail(text), fences, Tail(inlines))

restoreCodeBlocks(text, codeBlocks) ==
  RestoreFrom(text, SelectSeq(codeBlocks, LAMBDA b : b.type = "fence"),
              SelectSeq(codeBlocks, LAMBDA b : b.type = "inline"))

\* remend, the library that closes what a streamed text leaves open, on the
\* markup the model's texts use.  The tests of the repository pin it down:
\* inline code left open is closed with a backtick; a code fence left open
\* is not closed; text without an open marker comes back as it is.
remend(escaped) ==
  IF escaped # <<>> /\ escaped[Len(escaped)] = "<INLINECONTENT>"
  THEN Append(escaped, Backquote)
  ELSE escaped

safeRemend(text) ==
  LET e == escapeCodeBlocks(text)
  IN restoreCodeBlocks(remend(e.escaped), e.codeBlocks)

completeMarkdown(input) == safeRemend(input)

\* the while loop of detectClosedTags: the opening tags for what is left of
\* the added suffix, unshifted onto openingTags; ClosingTags are the closing
\* tags it looks for, in the order of its chain of tests
RECURSIVE DetectFrom(_, _)
DetectFrom(remaining, openingTags) ==
  LET ClosingTags ==
        << <<"*", "*", "*">>, <<"*", "*">>, <<"_", "_">>, <<"~", "~">>, <<"$", "$">>,
           Fence3, <<Backquote>>, <<"*">>, <<"_">>, <<"\n", "$", "$">> >>
      hits == {k \in 1..Len(ClosingTags) : StartsWithAt(remaining, 1, ClosingTags[k])}
      tag == ClosingTags[Least(hits)]
  IN IF remaining = <<>> THEN openingTags
     ELSE IF hits = {} THEN DetectFrom(Tail(remaining), openingTags)
     ELSE DetectFrom(SliceFrom(remaining, Len(tag)),
                     <<IF tag = <<"\n", "$", "$">> THEN <<"$", "$">> ELSE tag>>
                       \o openingTags)

detectClosedTags(original, completed) ==
  DetectFrom(SliceFrom(completed, Len(original)), <<>>)

\* text.match(/```(\w*)\n?[^`]*$/): the language of the leftmost fence that
\* no backtick follows
findCodeBlockLanguage(text) ==
  LET hits == {i \in 1..Len(text) :
                 /\ StartsWithAt(text, i, Fence3)
                 /\ \A k \in WordRunEnd(text, i + 3)..Len(text) : text[k] # Backquote}
  IN IF hits = {} THEN <<>>
     ELSE SubSeq(text, Least(hits) + 3, WordRunEnd(text, Least(hits) + 3) - 1)

buildOpeningPrefix(closedTags, originalText) ==
  Flat([k \in 1..Len(closedTags) |->
          IF closedTags[k] = Fence3
          THEN Fence3 \o findCodeBlockLanguage(originalText) \o <<"\n">>
          ELSE IF closedTags[k] = <<"$", "$">>
               THEN (IF IndexOf(originalText, <<"$", "$", "\n">>) # -1
                     THEN <<"$", "$", "\n">> ELSE <<"$", "$">>)
               ELSE closedTags[k]])

\* tokenCompleteAt whose overflow repeats the whole input behind the prefix
\* instead of input.slice(clampedSplitAt)
tokenCompleteAt_wholeInput(input, splitAt) ==
  LET clampedSplitAt == IF splitAt < 0 THEN 0 ELSE Min(splitAt, Len(input))
      firstPart == Slice(input, 0, clampedSplitAt)
      completedFirst == safeRemend(firstPart)
  IN [completed |-> completedFirst,
      overflow  |-> IF Len(input) > clampedSplitAt
                    THEN buildOpeningPrefix(detectClosedTags(firstPart, completedFirst),
                                            firstPart) \o input
                    ELSE <<>>]

tokenCompleteAt(input, splitAt) ==
  LET clampedSplitAt == IF splitAt < 0 THEN 0 ELSE Min(splitAt, Len(input))
      firstPart == Slice(input, 0, clampedSplitAt)
      remainingPart == SliceFrom(input, clampedSplitAt)
      completedFirst == safeRemend(firstPart)
  IN [completed |-> completedFirst,
      overflow  |-> IF Len(remainingPart) > 0
                    THEN buildOpeningPrefix(detectClosedTags(firstPart, completedFirst),
                                            firstPart) \o remainingPart
                    ELSE <<>>]

(***************************************************************************)
(* The markdown splitter (markdown-splitter.ts).  Offsets are 0-based as   *)
(* in the source: the character the source writes source[i - 1] is the     *)
(* element i of the sequence.                                              *)
(***************************************************************************)
Max(a, b) == IF a > b THEN a ELSE b

\* the greatest element of a non-empty set of integers
Greatest(S) == CHOOSE x \in S : \A y \in S : x >= y

\* the position after the run of backticks that starts at i
RECURSIVE BacktickRunEnd(_, _)
BacktickRunEnd(s, i) ==
  IF i > Len(s) \/ s[i] # Backquote THEN i ELSE BacktickRunEnd(s, i + 1)

\* the position of the line ending at or after i, Len(s) + 1 on the last line
RECURSIVE LineEnd(_, _)
LineEnd(s, i) == IF i > Len(s) \/ s[i] = "\n" THEN i ELSE LineEnd(s, i + 1)

\* whether the line that starts at j is a code fence of at least n
\* backticks: one that opens a block when no backtick follows on the line,
\* one that closes a block when only spaces do
IsFenceLine(s, j, n, closing) ==
  /\ BacktickRunEnd(s, j) - j >= n
  /\ \A k \in BacktickRunEnd(s, j)..(LineEnd(s, j) - 1) :
       IF closing THEN s[k] \in {" ", "\t"} ELSE s[k] # Backquote

\* the start of the first line at or after j that closes a fence of n
\* backticks, 0 when the fence stays open to the end of the document
RECURSIVE ClosingLine(_, _, _)
ClosingLine(s, j, n) ==
  IF j > Len(s) THEN 0
  ELSE IF IsFenceLine(s, j, n, TRUE) THEN j
  ELSE ClosingLine(s, LineEnd(s, j) + 1, n)

\* the code node of the fence opened at line i and closed at line j (0: open
\* to the end of the document); an mdast node is its type, the offsets of
\* its position and, for a code node, its lang (the word after the backticks)
CodeNode(s, i, j) ==
  [type |-> "code", start |-> i - 1,
   end |-> IF j = 0 THEN Len(s) ELSE LineEnd(s, j) - 1,
   lang |-> SubSeq(s, BacktickRunEnd(s, i), WordRunEnd(s, BacktickRunEnd(s, i)) - 1)]

\* the start of the next run of exactly n backticks at or after q and not
\* after b, 0 when there is none
RECURSIVE MatchingRun(_, _, _, _)
MatchingRun(s, q, b, n) ==
  IF q > b THEN 0
  ELSE IF s[q] # Backquote THEN MatchingRun(s, q + 1, b, n)
  ELSE IF BacktickRunEnd(s, q) - q = n THEN q
  ELSE MatchingRun(s, BacktickRunEnd(s, q), b, n)

\* the position of the first c at or after q and not after b, 0 when there
\* is none; the search stops at a character of stop
RECURSIVE FindChar(_, _, _, _, _)
FindChar(s, q, b, c, stop) ==
  IF q > b THEN 0
  ELSE IF s[q] = c THEN q
  ELSE IF s[q] \in stop THEN 0
  ELSE FindChar(s, q + 1, b, c, stop)

\* the position of the ")" that ends the link whose "[" is at p, 0 when the
\* text at p is not a link: [text](destination), no bracket in the text, no
\* whitespace or parenthesis in the destination
LinkEnd(s, p, b) ==
  LET r == FindChar(s, p + 1, b, "]", {"["})
  IN IF r = 0 \/ r + 1 > b \/ s[r + 1] # "(" THEN 0
     ELSE FindChar(s, r + 2, b, ")", {" ", "\n", "\t", "("})

\* the position of the "**" at or after q that closes a strong emphasis, 0
\* when there is none: a character other than whitespace precedes it
RECURSIVE StrongClose(_, _, _)
StrongClose(s, q, b) ==
  IF q + 1 > b THEN 0
  ELSE IF StartsWithAt(s, q, <<"*", "*">>) /\ ~IsSpace(s[q - 1]) THEN q
  ELSE StrongClose(s, q + 1, b)

\* the inline nodes of the text from position p to position b, after nodes
RECURSIVE Inline(_, _, _, _)
\* a construct of type that opens at p with n characters and closes at q
\* with as many (a link: closes with the one at q); q = 0: it is plain text
InlineAt(s, p, b, nodes, type, n, q) ==
  IF q = 0 THEN Inline(s, p + n, b, nodes)
  ELSE Inline(s, IF type = "link" THEN q + 1 ELSE q + n, b,
              Append(nodes, [type |-> type, start |-> p - 1,
                             end |-> IF type = "link" THEN q ELSE q + n - 1,
                             lang |-> <<>>]))

Inline(s, p, b, nodes) ==
  IF p > b THEN nodes
  ELSE IF s[p] = Backquote
       THEN InlineAt(s, p, b, nodes, "inlineCode", Min(BacktickRunEnd(s, p), b + 1) - p,
                     MatchingRun(s, Min(BacktickRunEnd(s, p), b + 1), b,
                                 Min(BacktickRunEnd(s, p), b + 1) - p))
  ELSE IF s[p] = "["
       THEN InlineAt(s, p, b, nodes, "link", 1, LinkEnd(s, p, b))
  ELSE IF StartsWithAt(s, p, <<"*", "*">>)
       THEN InlineAt(s, p, b, nodes, "strong", 2,
                     IF p + 2 > b \/ IsSpace(s[p + 2]) THEN 0
                     ELSE StrongClose(s, p + 3, b))
  ELSE Inline(s, p + 1, b, nodes)

\* the nodes of the document from the line that starts at i on; the text
\* from position textStart up to that line is not yet parsed
RECURSIVE Blocks(_, _, _, _)
\* the fence opened at line i, closed at line j
BlocksAtFence(s, i, j, nodes) ==
  IF j = 0 THEN Append(nodes, CodeNode(s, i, 0))
  ELSE Blocks(s, LineEnd(s, j) + 1, LineEnd(s, j) + 1, Append(nodes, CodeNode(s, i, j)))

Blocks(s, i, textStart, nodes) ==
  IF i > Len(s) THEN Inline(s, textStart, Len(s), nodes)
  ELSE IF IsFenceLine(s, i, 3, FALSE)
       THEN BlocksAtFence(s, i,
                          ClosingLine(s, LineEnd(s, i) + 1, BacktickRunEnd(s, i) - i),
                          Inline(s, textStart, i - 1, nodes))
  ELSE Blocks(s, LineEnd(s, i) + 1, textStart, nodes)

\* fromMarkdown(source, {extensions: [gfm()], ...}), the library parser, on
\* the markup the model's texts use: fenced code blocks, inline code, strong
\* emphasis and links, none nested in another
fromMarkdown(source) == Blocks(source, 1, 1, <<>>)

\* the zones getUnsafeZones pushes for one node
ZonesOf(node) ==
  CASE node.type \in {"strong", "delete"} ->
         {[start |-> node.start, end |-> node.start + 2],
          [start |-> node.end - 2, end |-> node.end]}
    [] node.type \in {"emphasis", "inlineCode"} ->
         {[start |-> node.start, end |-> node.start + 1],
          [start |-> node.end - 1, end |-> node.end]}
    [] node.type = "code" ->
         {[start |-> node.start, end |-> Min(node.end, node.start + 3)],
          [start |-> Max(node.start, node.end - 3), end |-> node.end]}
    [] node.type \in {"link", "image", "html"} ->
         {[start |-> node.start, end |-> node.end]}
    [] OTHER -> {}

getUnsafeZones(tree) ==
  LET code == SelectSeq(tree, LAMBDA n : n.type = "code")
  IN [zones |-> UNION {ZonesOf(tree[k]) : k \in 1..Len(tree)},
      codeFences |->
        [k \in 1..Len(code) |->
           [start |-> code[k].start, end |-> code[k].end,
            contentStart |->
              Min(code[k].end, code[k].start + 3 + Len(code[k].lang) + 1)]]]

isPositionSafe(pos, zones) == \A zone \in zones : ~(pos > zone.start /\ pos < zone.end)

\* the two loops and the last resort that findSafeSplitPoint and the baseSafe
\* of findLexicalSafeSplitPoint share
ClosestSafe(len, target, maxBacktrack, zones) ==
  LET back == {i \in Max(0, target - maxBacktrack)..target : isPositionSafe(i, zones)}
      forth == {i \in (target + 1)..(Min(len, target + maxBacktrack) - 1) :
                  isPositionSafe(i, zones)}
  IN IF back # {} THEN Greatest(back)
     ELSE IF forth # {} THEN Least(forth)
     ELSE target

findSafeSplitPoint(source, target, maxBacktrack) ==
  IF Min(target, Len(source)) >= Len(source) THEN Len(source)
  ELSE ClosestSafe(Len(source), Min(target, Len(source)), maxBacktrack,
                   getUnsafeZones(fromMarkdown(source)).zones)

\* null
NoBoundary == -1

\* the last safe position i from lo to hi where source[i - 1] is a character
\* of class, null when there is none
LastBoundary(source, lo, hi, zones, class) ==
  LET found == {i \in Max(lo, 1)..hi : isPositionSafe(i, zones) /\ source[i] \in class}
  IN IF found = {} THEN NoBoundary ELSE Greatest(found)

\* the last safe end of a word-like segment of source.slice(start,
\* safeTarget): Intl.Segmenter makes a run of letters and digits one
\* word-like segment
LastWordBoundary(source, start, safeTarget, zones) ==
  LET found == {i \in (start + 1)..safeTarget :
                  /\ IsWordChar(source[i])
                  /\ (i = safeTarget \/ ~IsWordChar(source[i + 1]))
                  /\ isPositionSafe(i, zones)}
  IN IF found = {} THEN NoBoundary ELSE Greatest(found)

\* preferred ?? fallback
OrElse(preferred, fallback) == IF preferred = NoBoundary THEN fallback ELSE preferred

findPreferredBoundaryInWindow(source, target, zones, codeFences, maxBacktrack, newlineBacktrack) ==
  LET safeTarget == Min(target, Len(source))
      start == Max(0, safeTarget - maxBacktrack)
      active == SelectSeq(codeFences,
                          LAMBDA f : safeTarget > f.contentStart /\ safeTarget < f.end)
  IN IF active # <<>>
     THEN LastBoundary(source, Max(active[1].contentStart + 1, start), safeTarget,
                       zones, {"\n"})
     ELSE OrElse(LastBoundary(source, Max(0, safeTarget - newlineBacktrack), safeTarget,
                              zones, {"\n"}),
                 OrElse(LastBoundary(source, start, safeTarget, zones, {" ", "\n", "\t"}),
                        LastWordBoundary(source, start, safeTarget, zones)))

\* findLexicalSafeSplitPoint once the source is parsed: unsafe is what
\* getUnsafeZones returned for the tree
LexicalIn(source, target, unsafe, maxBacktrack, newlineBacktrack) ==
  LET baseSafe == ClosestSafe(Len(source), target, maxBacktrack, unsafe.zones)
  IN OrElse(findPreferredBoundaryInWindow(source, baseSafe, unsafe.zones,
                                          unsafe.codeFences, maxBacktrack,
                                          newlineBacktrack),
            baseSafe)

findLexicalSafeSplitPoint(source, target, maxBacktrack, newlineBacktrack) ==
  LexicalIn(source, Min(target, Len(source)), getUnsafeZones(fromMarkdown(source)),
            maxBacktrack, newlineBacktrack)

(***************************************************************************)
(* The chunker (markdown-chunker.ts): chunkRaw and chunkMarkdownForEmbeds, *)
(* called by syncToDiscord with the content streamed so far.               *)
(***************************************************************************)
\* maxBacktrack: 100 and newlineBacktrack: 100, the options chunkRaw passes
ChunkBacktrack == 100

\* for (let attempt = 0; attempt < 10; attempt++)
MaxAttempts == 10

\* /^```/m.test(completed)
isFencedCodeChunk(completed) ==
  \E i \in 1..Len(completed) :
    /\ StartsWithAt(completed, i, Fence3)
    /\ (i = 1 \/ completed[i - 1] = "\n")

\* text.replace(/^[\s\n]+/u, "")
RECURSIVE TrimStart(_)
TrimStart(text) ==
  IF text # <<>> /\ IsSpace(Head(text)) THEN TrimStart(Tail(text)) ELSE text

\* text.replace(/[\s\n]+$/u, "")
RECURSIVE TrimEnd(_)
TrimEnd(text) ==
  IF text # <<>> /\ IsSpace(text[Len(text)])
  THEN TrimEnd(SubSeq(text, 1, Len(text) - 1)) ELSE text

\* the content.slice(i, i + maxChunkLength) of the loop without smart splitting
FixedSlices(content, maxChunkLength) ==
  [k \in 1..((Len(content) + maxChunkLength - 1) \div maxChunkLength) |->
     Slice(content, (k - 1) * maxChunkLength, Min(k * maxChunkLength, Len(content)))]

\* splitPos: the lexical split point of the completed window, clamped
SplitPosOf(remaining, maxChunkLength) ==
  Max(1, Min(findLexicalSafeSplitPoint(tokenCompleteAt(remaining, maxChunkLength).completed,
                                       maxChunkLength, ChunkBacktrack, ChunkBacktrack),
             maxChunkLength))

\* the loop for (let attempt = 0; attempt < 10; attempt++) from one attempt
\* on: the completed, nextRemaining and attemptSplitPos it leaves behind
RECURSIVE Attempts(_, _, _, _)
\* one attempt, with the completed and the nextRemaining it computed
Attempt(remaining, maxChunkLength, attemptSplitPos, attempt, completed, nextRemaining) ==
  IF \/ Len(nextRemaining) < Len(remaining)
     \/ attemptSplitPos >= maxChunkLength
     \/ attempt + 1 >= MaxAttempts
  THEN [completed |-> completed, nextRemaining |-> nextRemaining,
        attemptSplitPos |->
          IF Len(nextRemaining) < Len(remaining) \/ attemptSplitPos >= maxChunkLength
          THEN attemptSplitPos ELSE Min(maxChunkLength, attemptSplitPos + 1)]
  ELSE Attempts(remaining, maxChunkLength, Min(maxChunkLength, attemptSplitPos + 1),
                attempt + 1)

Attempts(remaining, maxChunkLength, attemptSplitPos, attempt) ==
  LET completion == tokenCompleteAt(remaining, attemptSplitPos)
  IN Attempt(remaining, maxChunkLength, attemptSplitPos, attempt, completion.completed,
             IF isFencedCodeChunk(completion.completed) THEN completion.overflow
             ELSE TrimStart(completion.overflow))

\* the chunk one pass of while (remaining.length > 0) pushes, raw and for
\* display, and the remaining it leaves
Pushed(remaining, attempted) ==
  [raw |-> Slice(remaining, 0, attempted.attemptSplitPos),
   display |-> IF isFencedCodeChunk(attempted.completed) THEN attempted.completed
               ELSE TrimEnd(attempted.completed),
   next |-> attempted.nextRemaining]

LoopBody(remaining, maxChunkLength) ==
  IF Len(remaining) <= maxChunkLength
  THEN [raw |-> remaining, display |-> completeMarkdown(remaining), next |-> <<>>]
  ELSE Pushed(remaining,
              Attempts(remaining, maxChunkLength, SplitPosOf(remaining, maxChunkLength), 0))

\* the displayChunks of chunkRaw's loop, from the pass that pushes chunk on
RECURSIVE DisplayChunksFrom(_, _)
DisplayChunksFrom(chunk, maxChunkLength) ==
  <<chunk.display>>
    \o (IF chunk.next = <<>> THEN <<>>
        ELSE DisplayChunksFrom(LoopBody(chunk.next, maxChunkLength), maxChunkLength))

\* chunkRaw(text, maxChunkLength, smart).displayChunks
chunkRawDisplayChunks(text, maxChunkLength, smart) ==
  IF text = <<>> THEN <<>>
  ELSE IF maxChunkLength <= 0 THEN <<completeMarkdown(text)>>
  ELSE IF ~smart THEN FixedSlices(text, maxChunkLength)
  ELSE DisplayChunksFrom(LoopBody(text, maxChunkLength), maxChunkLength)

(***************************************************************************)
(* State.                                                                  *)
(***************************************************************************)
VARIABLES
  impl,         \* which implementation runs the turn: "text" or "run"
  phase,        \* "invoke", "stream", "exec" or "done"
  resp,         \* the text of the current model response
  pos,          \* how many of its characters have been consumed
  invocations,  \* calls of streamText made so far
  messages,     \* messages (textStreamOut), workingMessages (runCompatibleStream)
  buffer, toolMatch, inToolCall, carryOver,
  lastEmittedChar, pendingBoundarySeparator,
  callSequence,
  out,          \* the texts yielded by textStreamOut, each with its yield site
  execLog,      \* the calls of tool.execute made so far
  settled,      \* what each awaited tool.execute did: returned or threw
  resolved,     \* the calls of the resolve functions made so far, in order
  step, overallText, allParsedCalls, textAccumulator, parsedCalls,
  content,              \* the text chunkMarkdownForEmbeds is called with
  maxChunkLength, maxLastChunkLength, useSmartSplitting,
  chunkPc,              \* "idle", "call", "loop", "returned" or "done"
  pass,                 \* which chunkRaw runs: "initial" or "rechunk"
  rawContent,           \* the content the running chunkRaw was called with
  chunkRawMax,          \* and its maxChunkLength
  remaining, rawChunks, displayChunks,
  kept,                 \* prefix: initial.displayChunks.slice(0, -1)
  chunks,               \* what chunkMarkdownForEmbeds returned last
  previous,             \* what it returned for the shorter content before
  grown,                \* how often the content has grown
  splitSource, splitTarget, splitBacktrack,
  splitPc,              \* "idle", "call", or the function that has returned
  splitResult,          \* the offset it returned
  completeInput,        \* the text the completer is called with
  completeSplitAt,      \* splitAt of tokenCompleteAt
  completePc,           \* "idle", "call", or the function that has returned
  completeOut,          \* what it returned: completed and overflow
  pushStream,           \* the fragments textStream has still to deliver
  contentAcc,           \* the text accumulated by the stream consumer
  streaming,            \* the pusher's flag, cleared when streamDone resolves
  pusherPc,             \* "idle", "tick", "update", "sleep" or "exited"
  responseQueue,        \* the display chunks of the running syncToDiscord
  pushIndex,            \* i of its loop, at the awaited update
  pendingDescription,   \* the description that update sends
  sentDescriptions,     \* per chunk message, the description sent last
  outstanding,          \* the loop indexes of the replies and edits not settled
  attemptPc,            \* "idle", "running", "succeeded" or "failed"
  attemptNo,            \* i of the retry loop of messageCreate
  streamThrew,          \* whether for await (... of textStream) has thrown
  max_retry,            \* the configuration's max_retry: <<>> when it is not set
  cancellationMap,      \* the generation ids that have a controller registered
  aborted,              \* controller.signal.aborted
  cancelledDuring,      \* the phase in which the cancel button was handled
  logLevel,             \* the Logger's logLevel
  toolCalls,            \* step.toolCalls of the step that has finished
  logPc,                \* "idle", the code about to log, or "done"
  logs,                 \* the entries written to the console: level and message
  mergeParts,           \* the parts mergeProviderOptions is called with
  mergePc,              \* "idle", "call" or "returned"
  mergeOut,             \* what it returned
  permission,           \* the arguments of getChannelPermission and the configuration
  permissionPc,         \* "idle", "call" or "returned"
  permitted,            \* what it returned
  locked, waiting,      \* the fields of one Lock
  lockPc                \* per caller: "idle", "waiting", "resumed" or "holding"

scanVars == <<buffer, toolMatch, inToolCall, carryOver>>
sepVars == <<lastEmittedChar, pendingBoundarySeparator>>
runVars == <<step, overallText, allParsedCalls, textAccumulator, parsedCalls>>
streamVars == <<impl, phase, resp, pos, invocations, messages, scanVars, sepVars,
                callSequence, out, execLog, settled, resolved, runVars>>
chunkVars == <<content, maxChunkLength, maxLastChunkLength, useSmartSplitting,
               chunkPc, pass, rawContent, chunkRawMax, remaining, rawChunks,
               displayChunks, kept, chunks, previous, grown>>
splitVars == <<splitSource, splitTarget, splitBacktrack, splitPc, splitResult>>
completeVars == <<completeInput, completeSplitAt, completePc, completeOut>>
pushVars == <<pushStream, contentAcc, streaming, pusherPc, responseQueue, pushIndex,
              pendingDescription, sentDescriptions, outstanding, attemptPc, attemptNo,
              streamThrew>>
cancelVars == <<max_retry, cancellationMap, aborted, cancelledDuring>>
logVars == <<logLevel, toolCalls, logPc, logs>>
mergeVars == <<mergeParts, mergePc, mergeOut>>
permissionVars == <<permission, permissionPc, permitted>>
lockVars == <<locked, waiting, lockPc>>
hostVars == <<logVars, mergeVars, permissionVars, lockVars>>
turnVars == <<cancelVars, hostVars>>
markdownVars == <<chunkVars, splitVars, completeVars, pushVars, turnVars>>
vars == <<streamVars, markdownVars>>

\* a conversation message; the fields a kind of message does not use are empty
Msg(role, type, text, results) ==
  [role |-> role, type |-> type, text |-> text, results |-> results]

\* a tool-result part
ToolResult(callId, toolName, outType, value) ==
  [type |-> "tool-result", toolCallId |-> callId, toolName |-> toolName,
   outType |-> outType, value |-> value]

\* toToolResultOutput, for the outputs the tools of the model return (strings)
toToolResultOutput(output) == <<"text", <<output>>>>

\* a text yielded to the consumer, with the yield statement that produced it
\* and the model call during which it was yielded
Piece(site, text) == [site |-> site, call |-> invocations, text |-> text]

\* the consumer's view after one more yield: it concatenates what it receives
\* (contentAcc += textPart), so consecutive plain fragments of one response
\* are kept as one piece
Yield(stream, piece) ==
  IF /\ stream # <<>>
     /\ piece.site = "chunk"
     /\ stream[Len(stream)].site = "chunk"
     /\ stream[Len(stream)].call = piece.call
  THEN [stream EXCEPT ![Len(stream)].text = @ \o piece.text]
  ELSE Append(stream, piece)

RECURSIVE YieldAll(_, _)
\* several yields in a row
YieldAll(stream, pieces) ==
  IF pieces = <<>> THEN stream
  ELSE YieldAll(Yield(stream, Head(pieces)), Tail(pieces))

\* one call of a resolve function: which promise, the model calls whose
\* values it carries, and the messages it carries
Resolution(what, calls, msgs) == [what |-> what, calls |-> calls, msgs |-> msgs]

\* the break branch resolving the finish reason of the call before the last
BreakResolutions_stale(inv, msgs) ==
  << Resolution("reasoningText", 1..inv, <<>>),
     Resolution("warnings", 1..inv, <<>>),
     Resolution("finishReason", {inv - 1}, <<>>),
     Resolution("totalUsage", 1..inv, <<>>),
     Resolution("response", {}, SubSeq(msgs, 2, Len(msgs))) >>

\* the resolve calls of the break branch of textStreamOut, in order, after inv
\* model calls and with msgs the conversation state: finalResponsesAccu holds
\* every message pushed after the initial one
BreakResolutions(inv, msgs) ==
  << Resolution("reasoningText", 1..inv, <<>>),
     Resolution("warnings", 1..inv, <<>>),
     Resolution("finishReason", {inv}, <<>>),
     Resolution("totalUsage", 1..inv, <<>>),
     Resolution("response", {}, SubSeq(msgs, 2, Len(msgs))) >>

\* what runCompatibleStream returns besides text and toolCalls: finalFinish,
\* the finish reason of the last streamOnce
ReturnedFinish(inv) == <<Resolution("finishReason", {inv}, <<>>)>>

\* no chunking is under way
ChunkIdle ==
  /\ content = <<>>
  /\ maxChunkLength = 0
  /\ maxLastChunkLength = 0
  /\ useSmartSplitting = FALSE
  /\ chunkPc = "idle"
  /\ pass = "initial"
  /\ rawContent = <<>>
  /\ chunkRawMax = 0
  /\ remaining = <<>>
  /\ rawChunks = <<>>
  /\ displayChunks = <<>>
  /\ kept = <<>>
  /\ chunks = <<>>
  /\ previous = <<>>
  /\ grown = 0

\* the id prepareStreamOptions draws with randomUUID()
GenerationId == "id"

\* no message is being handled
TurnIdle ==
  /\ max_retry = <<>>
  /\ cancellationMap = {}
  /\ aborted = FALSE
  /\ cancelledDuring = "none"

\* nothing is being logged
LogIdle ==
  /\ logLevel = "info"
  /\ toolCalls = <<>>
  /\ logPc = "idle"
  /\ logs = <<>>

\* the value undefined of a part or of the result; an object is held as the
\* function from its keys to their values
Undefined == [defined |-> FALSE, entries |-> <<>>]

\* mergeProviderOptions is not being called
MergeIdle ==
  /\ mergeParts = <<>>
  /\ mergePc = "idle"
  /\ mergeOut = Undefined

\* getChannelPermission is not being called
PermissionIdle ==
  /\ permission = <<>>
  /\ permissionPc = "idle"
  /\ permitted = FALSE

\* no Lock is in use
LockIdle ==
  /\ locked = FALSE
  /\ waiting = <<>>
  /\ lockPc = <<>>

\* none of the host's other operations is under way
HostIdle == LogIdle /\ MergeIdle /\ PermissionIdle /\ LockIdle

\* no stream attempt is under way
PushIdle ==
  /\ pushStream = <<>>
  /\ contentAcc = <<>>
  /\ streaming = FALSE
  /\ pusherPc = "idle"
  /\ responseQueue = <<>>
  /\ pushIndex = 0
  /\ pendingDescription = [text |-> <<>>, indicator |-> FALSE]
  /\ sentDescriptions = <<>>
  /\ outstanding = <<>>
  /\ attemptPc = "idle"
  /\ attemptNo = 0
  /\ streamThrew = FALSE

\* no call of the completer is under way
CompleteIdle ==
  /\ completeInput = <<>>
  /\ completeSplitAt = 0
  /\ completePc = "idle"
  /\ completeOut = [completed |-> <<>>, overflow |-> <<>>]

\* no call of the splitter is under way
SplitIdle ==
  /\ splitSource = <<>>
  /\ splitTarget = 0
  /\ splitBacktrack = 0
  /\ splitPc = "idle"
  /\ splitResult = 0

Init ==
  /\ impl \in {"text", "run"}
  /\ phase = "invoke"
  /\ resp = <<>>
  /\ pos = 0
  /\ invocations = 0
  /\ messages = <<Msg("user", "text", <<"q">>, <<>>)>>
  /\ buffer = <<>>
  /\ toolMatch = NoMatch
  /\ inToolCall = FALSE
  /\ carryOver = <<>>
  /\ lastEmittedChar = ""
  /\ pendingBoundarySeparator = FALSE
  /\ callSequence = 0
  /\ out = <<>>
  /\ execLog = <<>>
  /\ settled = <<>>
  /\ resolved = <<>>
  /\ step = 0
  /\ overallText = <<>>
  /\ allParsedCalls = <<>>
  /\ textAccumulator = <<>>
  /\ parsedCalls = <<>>
  /\ ChunkIdle
  /\ SplitIdle
  /\ CompleteIdle
  /\ PushIdle
  /\ max_retry = <<>>
  /\ cancellationMap = {GenerationId}
  /\ aborted = FALSE
  /\ cancelledDuring = "none"
  /\ HostIdle

(***************************************************************************)
(* textStreamOut of streamTextWithCompatibleTools.                         *)
(***************************************************************************)
\* the top of while (true): streamText is called and the scanner state reset
TextInvoke ==
  /\ impl = "text" /\ phase = "invoke"
  /\ invocations < MaxCalls
  /\ \E r \in Responses : resp' = r
  /\ pos' = 0
  /\ invocations' = invocations + 1
  /\ buffer' = <<>>
  /\ toolMatch' = NoMatch
  /\ inToolCall' = FALSE
  /\ carryOver' = <<>>
  /\ phase' = "stream"
  /\ UNCHANGED <<markdownVars, impl, resolved, messages, sepVars, callSequence, out, execLog, settled,
                 runVars>>

\* the carry-over sliced one character too late
CarryOverOf_offByOne(buf, match) ==
  SliceFrom(buf, IndexOf(buf, match.full) + Len(match.full) + 1)

\* carryOver = buffer.slice(endIdx), endIdx = buffer.indexOf(full) + full.length
CarryOverOf(buf, match) == SliceFrom(buf, IndexOf(buf, match.full) + Len(match.full))

\* whether a fragment opens a buffered region: maybeToolCallStart(chunk) && !toolMatch
OpensToolCall(chunk, match) == maybeToolCallStart(chunk) /\ ~match.found

\* the malformed buffer dropped instead of yielded
MalformedYield_dropped(buf, inv) == <<>>

\* yield buffer, for a buffer that ends like a tag and does not parse as one
MalformedYield(buf, inv) == <<[site |-> "malformed", call |-> inv, text |-> buf]>>

\* one iteration of for await (const chunk of textStream)
TextChunk ==
  /\ impl = "text" /\ phase = "stream"
  /\ pos < Len(resp)
  /\ \E n \in 1..(Len(resp) - pos) :
       LET chunk == SubSeq(resp, pos + 1, pos + n)
       IN /\ pos' = pos + n
          /\ IF inToolCall \/ OpensToolCall(chunk, toolMatch)
             THEN LET buf == IF inToolCall THEN buffer \o chunk ELSE chunk
                  IN IF maybeToolCallEnd(buf)
                     THEN LET match == TOOL_CALL_SINGLE(buf)
                          IN /\ IF match.found
                                THEN /\ carryOver' = CarryOverOf(buf, match)
                                     /\ toolMatch' = match
                                     /\ out' = out
                                ELSE /\ out' = YieldAll(out, MalformedYield(buf, invocations))
                                     /\ UNCHANGED <<carryOver, toolMatch>>
                             /\ buffer' = <<>>
                             /\ inToolCall' = FALSE
                             /\ UNCHANGED sepVars
                     ELSE /\ buffer' = buf
                          /\ inToolCall' = TRUE
                          /\ UNCHANGED <<carryOver, toolMatch, out, sepVars>>
             ELSE LET sep == IF pendingBoundarySeparator
                             THEN maybeYieldBoundarySeparator(lastEmittedChar, chunk)
                             ELSE <<>>
                  IN /\ out' = YieldAll(out,
                                (IF sep # <<>> THEN <<Piece("sep", sep)>> ELSE <<>>)
                                  \o <<Piece("chunk", chunk)>>)
                     /\ lastEmittedChar' = chunk[Len(chunk)]
                     /\ pendingBoundarySeparator' = FALSE
                     /\ UNCHANGED scanVars
  /\ UNCHANGED <<markdownVars, impl, resolved, phase, resp, invocations, messages, callSequence,
                 execLog, settled, runVars>>

\* the buffer discarded at the end of the stream
EndOfStreamFlush_dropped(match, buf, inCall) == <<>>

\* what is yielded when the stream has ended: if (!toolMatch && buffer) ...
EndOfStreamFlush(match, buf, inCall) ==
  IF ~match.found /\ buf # <<>> /\ inCall
  THEN <<Piece("eos", buf)>>
  ELSE <<>>

\* if (carryOver) yield carryOver
CarryOverYield(carry) ==
  IF carry # <<>> THEN <<Piece("carry", carry)>> ELSE <<>>

\* the call tool.execute(tryParseJson(payload), {toolCallId: callId, ...})
TextExecutions(match, callId, inv) ==
  <<[toolCallId |-> callId,
     toolName |-> match.name,
     input |-> tryParseJson(match.payload),
     call |-> inv]>>

\* the stream has ended: flush, record the response, look the tool up and
\* either finish the turn or call tool.execute
TextStreamEnd ==
  /\ impl = "text" /\ phase = "stream"
  /\ pos = Len(resp)
  /\ LET flush == EndOfStreamFlush(toolMatch, buffer, inToolCall)
         cleared == ~toolMatch.found /\ buffer # <<>>
     IN /\ buffer' = IF cleared THEN <<>> ELSE buffer
        /\ inToolCall' = IF cleared THEN FALSE ELSE inToolCall
        /\ messages' = Append(messages, Msg("assistant", "text", resp, <<>>))
        /\ pendingBoundarySeparator' = (pendingBoundarySeparator \/ toolMatch.found)
        /\ IF ~toolMatch.found \/ ~Executable(toolMatch.name)
           THEN /\ out' = YieldAll(out, flush \o CarryOverYield(carryOver))
                /\ carryOver' = <<>>
                /\ phase' = "done"
                /\ resolved' = resolved \o
                       BreakResolutions(invocations,
                          Append(messages, Msg("assistant", "text", resp, <<>>)))
                /\ UNCHANGED <<callSequence, execLog>>
           ELSE /\ out' = YieldAll(out, flush)
                /\ callSequence' = callSequence + 1
                /\ execLog' = execLog \o TextExecutions(toolMatch, callSequence + 1,
                                                        invocations)
                /\ phase' = "exec"
                /\ UNCHANGED <<carryOver, resolved>>
  /\ UNCHANGED <<markdownVars, impl, resp, pos, invocations, toolMatch, lastEmittedChar,
                 settled, runVars>>

\* a message pushed after tool.execute that carries no result
TextToolMessage_noResult(outcome, callId, toolName) ==
  Msg("assistant", "tool-result", <<>>, <<>>)

\* the tool-result message pushed after tool.execute returned or threw
TextToolMessage(outcome, callId, toolName) ==
  IF outcome.threw
  THEN Msg("assistant", "tool-result", <<>>,
           <<ToolResult(callId, toolName, "error-text",
                        <<"Tool execution failed: ", outcome.value>>)>>)
  ELSE Msg("assistant", "tool-result", <<>>,
           <<ToolResult(callId, toolName, toToolResultOutput(outcome.value)[1],
                        toToolResultOutput(outcome.value)[2])>>)

\* the record of what an awaited tool.execute did
Settled(callId, outcome) ==
  [toolCallId |-> callId, threw |-> outcome.threw, value |-> outcome.value]

\* tool.execute awaited without the try/catch: a throw leaves the loop
SettledPhase_noCatch(outcomes) ==
  IF \E k \in 1..Len(outcomes) : outcomes[k].threw THEN "failed" ELSE "invoke"

\* where the loop goes once the awaited executes have settled: the try/catch
\* around tool.execute turns a throw into a result, so the loop always goes
\* round ("failed" would be the exception leaving the loop)
SettledPhase(outcomes) == "invoke"

\* await tool.execute(...) settles: the result message is pushed, the
\* carry-over yielded, and the loop goes round
TextToolSettles ==
  /\ impl = "text" /\ phase = "exec"
  /\ \E outcome \in ToolOutcomes :
       /\ settled' = Append(settled, Settled(callSequence, outcome))
       /\ phase' = SettledPhase(<<outcome>>)
       /\ IF SettledPhase(<<outcome>>) = "invoke"
          THEN /\ messages' = Append(messages,
                       TextToolMessage(outcome, callSequence, toolMatch.name))
               /\ out' = YieldAll(out, CarryOverYield(carryOver))
               /\ carryOver' = <<>>
          ELSE UNCHANGED <<messages, out, carryOver>>
  /\ UNCHANGED <<markdownVars, impl, resolved, resp, pos, invocations, buffer, toolMatch, inToolCall,
                 sepVars, callSequence, execLog, runVars>>

NextText == TextInvoke \/ TextChunk \/ TextStreamEnd \/ TextToolSettles

(***************************************************************************)
(* runCompatibleStream, streamOnce and flushToolMarkup.                    *)
(***************************************************************************)
\* tryParseJson of runCompatibleStream: no undefined for an empty payload
tryParseJsonRun(raw) ==
  LET trimmed == Trim(raw)
  IN IF trimmed = <<>> THEN JString(<<>>)
     ELSE LET parsed == JSONparse(trimmed)
          IN IF parsed.ok THEN parsed.val ELSE JString(trimmed)

\* const input = c.arguments === "" ? undefined : c.arguments
ExecuteInput(arguments) ==
  IF arguments = JString(<<>>) THEN JUndefined ELSE arguments

RECURSIVE FlushLoop(_, _, _, _, _)
\* one round of the while (true) of flushToolMarkup, match being the result
\* of TOOL_CALL_PATTERN.exec(buffer)
FlushRound(buf, lastIndex, text, calls, seq, match) ==
  IF ~match.found
  THEN [lastIndex |-> lastIndex, text |-> text, calls |-> calls, seq |-> seq]
  ELSE FlushLoop(buf,
                 match.index + Len(match.full),
                 text \o Slice(buf, lastIndex, match.index),
                 Append(calls, [callId |-> seq + 1,
                                toolName |-> match.name,
                                rawArguments |-> match.payload,
                                arguments |-> tryParseJsonRun(match.payload)]),
                 seq + 1)

\* the while (true) of flushToolMarkup: text is what has been handed to
\* textAccumulatorRef and onTextChunk, calls what has been pushed to parsedCalls
FlushLoop(buf, lastIndex, text, calls, seq) ==
  FlushRound(buf, lastIndex, text, calls, seq, MatchFrom(buf, lastIndex))

\* the end of flushToolMarkup, r being the state the loop ended in:
\* remaining = buffer.slice(lastIndex), flushed when flushRemainder is set
FlushRemainder(buf, r, flushRemainder) ==
  IF flushRemainder /\ SliceFrom(buf, r.lastIndex) # <<>>
  THEN [text |-> r.text \o SliceFrom(buf, r.lastIndex), calls |-> r.calls,
        seq |-> r.seq, remainingBuffer |-> <<>>]
  ELSE [text |-> r.text, calls |-> r.calls, seq |-> r.seq,
        remainingBuffer |-> SliceFrom(buf, r.lastIndex)]

\* flushToolMarkup: the text emitted, the calls parsed, the buffer that remains
flushToolMarkup(buf, calls, seq, flushRemainder) ==
  FlushRemainder(buf, FlushLoop(buf, 0, <<>>, calls, seq), flushRemainder)

\* for (let step = 0; step < maxToolLoops; step++): streamOnce is called
RunInvoke ==
  /\ impl = "run" /\ phase = "invoke"
  /\ step < MaxToolLoops
  /\ \E r \in Responses : resp' = r
  /\ pos' = 0
  /\ invocations' = invocations + 1
  /\ buffer' = <<>>
  /\ textAccumulator' = <<>>
  /\ parsedCalls' = <<>>
  /\ phase' = "stream"
  /\ UNCHANGED <<markdownVars, impl, resolved, messages, toolMatch, inToolCall, carryOver, sepVars,
                 callSequence, out, execLog, settled, step, overallText,
                 allParsedCalls>>

\* the loop condition fails: runCompatibleStream returns
RunLoopExit ==
  /\ impl = "run" /\ phase = "invoke"
  /\ step >= MaxToolLoops
  /\ phase' = "done"
  /\ resolved' = resolved \o ReturnedFinish(invocations)
  /\ UNCHANGED <<markdownVars, impl, resp, pos, invocations, messages, scanVars, sepVars,
                 callSequence, out, execLog, settled, runVars>>

\* one iteration of for await (const chunk of textStream) in streamOnce
RunChunk ==
  /\ impl = "run" /\ phase = "stream"
  /\ pos < Len(resp)
  /\ \E n \in 1..(Len(resp) - pos) :
       \E r \in {flushToolMarkup(buffer \o SubSeq(resp, pos + 1, pos + n),
                                  parsedCalls, callSequence, FALSE)} :
          /\ pos' = pos + n
          /\ buffer' = r.remainingBuffer
          /\ textAccumulator' = textAccumulator \o r.text
          /\ parsedCalls' = r.calls
          /\ callSequence' = r.seq
  /\ UNCHANGED <<markdownVars, impl, resolved, phase, resp, invocations, messages, toolMatch, inToolCall,
                 carryOver, sepVars, out, execLog, settled, step, overallText,
                 allParsedCalls>>

\* the text of streamOnce once the stream has ended: the remainder is flushed
StreamOnceText(acc, buf, calls, seq) ==
  IF Len(buf) > 0
  THEN acc \o flushToolMarkup(buf, calls, seq, TRUE).text
  ELSE acc

\* the calls of a response that runCompatibleStream executes
CallsToExecute(calls) == calls

\* calls.map(...) that stops before the last call
RunExecutions_skipLast(calls, inv) ==
  LET f[i \in 0..Len(calls)] ==
        IF i = 0 THEN <<>>
        ELSE IF Executable(calls[i].toolName) /\ i < Len(calls)
             THEN Append(f[i - 1], [toolCallId |-> calls[i].callId,
                                    toolName |-> calls[i].toolName,
                                    input |-> ExecuteInput(calls[i].arguments),
                                    call |-> inv])
             ELSE f[i - 1]
  IN f[Len(calls)]

\* the tool.execute calls made by calls.map(...), in order
RunExecutions(calls, inv) ==
  LET idx == {i \in 1..Len(calls) : Executable(calls[i].toolName)}
      f[i \in 0..Len(calls)] ==
        IF i = 0 THEN <<>>
        ELSE IF i \in idx
             THEN Append(f[i - 1], [toolCallId |-> calls[i].callId,
                                    toolName |-> calls[i].toolName,
                                    input |-> ExecuteInput(calls[i].arguments),
                                    call |-> inv])
             ELSE f[i - 1]
  IN f[Len(calls)]

\* the stream has ended: streamOnce returns and runCompatibleStream either
\* finishes (no calls) or appends the assistant text and starts the tools
RunStreamEnd ==
  /\ impl = "run" /\ phase = "stream"
  /\ pos = Len(resp)
  /\ LET text == StreamOnceText(textAccumulator, buffer, parsedCalls, callSequence)
     IN /\ textAccumulator' = text
        /\ buffer' = <<>>
        /\ overallText' = overallText \o text
        /\ allParsedCalls' = allParsedCalls \o parsedCalls
        /\ IF Len(parsedCalls) = 0
           THEN /\ phase' = "done"
                /\ resolved' = resolved \o ReturnedFinish(invocations)
                /\ UNCHANGED <<messages, execLog>>
           ELSE /\ messages' = IF Trim(text) # <<>>
                               THEN Append(messages, Msg("assistant", "text", text, <<>>))
                               ELSE messages
                /\ execLog' = execLog \o RunExecutions(CallsToExecute(parsedCalls),
                                                       invocations)
                /\ phase' = "exec"
                /\ UNCHANGED resolved
  /\ UNCHANGED <<markdownVars, impl, resp, pos, invocations, toolMatch, inToolCall, carryOver,
                 sepVars, callSequence, out, settled, step, parsedCalls>>

\* the tool-result part of one call, given what its execute did
RunToolResult(c, outcome) ==
  IF ~Executable(c.toolName)
  THEN ToolResult(c.callId, c.toolName, "error-text",
                  <<"Tool not available: ", c.toolName>>)
  ELSE IF outcome.threw
  THEN ToolResult(c.callId, c.toolName, "error-text",
                  <<"Tool execution failed: ", outcome.value>>)
  ELSE ToolResult(c.callId, c.toolName, toToolResultOutput(outcome.value)[1],
                  toToolResultOutput(outcome.value)[2])

\* the single tool message that carries every result
RunToolMessage(calls, outcomes) ==
  Msg("tool", "tool-result", <<>>,
      [i \in 1..Len(calls) |-> RunToolResult(calls[i], outcomes[i])])

RECURSIVE RunSettled(_, _)
\* what the executes of the executable calls did, in the order of the calls
RunSettled(calls, outcomes) ==
  IF calls = <<>> THEN <<>>
  ELSE LET n == Len(calls)
           before == RunSettled(SubSeq(calls, 1, n - 1), outcomes)
       IN IF Executable(calls[n].toolName)
          THEN Append(before, Settled(calls[n].callId, outcomes[n]))
          ELSE before

\* await Promise.all(...) settles: one tool message with every result is
\* appended and the loop goes round
RunToolsSettle ==
  /\ impl = "run" /\ phase = "exec"
  /\ \E outcomes \in [1..Len(CallsToExecute(parsedCalls)) -> ToolOutcomes] :
       /\ settled' = settled \o RunSettled(CallsToExecute(parsedCalls), outcomes)
       /\ phase' = SettledPhase(RunSettled(CallsToExecute(parsedCalls), outcomes))
       /\ IF SettledPhase(RunSettled(CallsToExecute(parsedCalls), outcomes)) = "invoke"
          THEN /\ messages' = Append(messages,
                       RunToolMessage(CallsToExecute(parsedCalls), outcomes))
               /\ step' = step + 1
          ELSE UNCHANGED <<messages, step>>
  /\ UNCHANGED <<markdownVars, impl, resolved, resp, pos, invocations, scanVars, sepVars, callSequence,
                 out, execLog, overallText, allParsedCalls, textAccumulator,
                 parsedCalls>>

NextRun == RunInvoke \/ RunLoopExit \/ RunChunk \/ RunStreamEnd \/ RunToolsSettle

Next == NextText \/ NextRun

Spec == Init /\ [][Next]_vars

\* a turn run by streamTextWithCompatibleTools alone
InitText == Init /\ impl = "text"
SpecText == InitText /\ [][NextText]_vars

\* responses whose plain text meets a tool call with a markdown delimiter
SeamResponses ==
  { <<"*">> \o ToolCallEndLiteral \o Tag(FETCH, <<"1">>),
    <<"*">> \o Tag(FETCH, <<"1">>) \o <<"*">> \o ToolCallEndLiteral,
    <<"a">> \o Tag(FETCH, <<"1">>),
    <<"*", "a">>,
    <<"a", "*">> }

\* the top of while (true), the model answering with one of SeamResponses
TextInvokeSeam ==
  /\ impl = "text" /\ phase = "invoke"
  /\ invocations < MaxCalls
  /\ \E r \in SeamResponses : resp' = r
  /\ pos' = 0
  /\ invocations' = invocations + 1
  /\ buffer' = <<>>
  /\ toolMatch' = NoMatch
  /\ inToolCall' = FALSE
  /\ carryOver' = <<>>
  /\ phase' = "stream"
  /\ UNCHANGED <<markdownVars, impl, resolved, messages, sepVars, callSequence, out, execLog, settled,
                 runVars>>

\* a turn of streamTextWithCompatibleTools whose responses are SeamResponses
SpecSeam ==
  InitText /\ [][TextInvokeSeam \/ TextChunk \/ TextStreamEnd \/ TextToolSettles]_vars

\* handleInteraction, customId cancel_<id>: the controller registered for the
\* id is aborted and taken out of the map; nothing happens when there is none
Cancel ==
  /\ GenerationId \in cancellationMap
  /\ aborted' = TRUE
  /\ cancellationMap' = cancellationMap \ {GenerationId}
  /\ cancelledDuring' = phase
  /\ UNCHANGED <<streamVars, chunkVars, splitVars, completeVars, pushVars, max_retry, hostVars>>

\* textStreamOut while the cancel button of the turn may be pressed
SpecCancel ==
  InitText /\ [][TextInvoke \/ TextChunk \/ TextStreamEnd \/ TextToolSettles \/ Cancel]_vars

\* a turn run by runCompatibleStream alone
InitRun == Init /\ impl = "run"
SpecRun == InitRun /\ [][NextRun]_vars

\* no model turn is under way
StreamIdle ==
  /\ impl = "none"
  /\ phase = "done"
  /\ resp = <<>>
  /\ pos = 0
  /\ invocations = 0
  /\ messages = <<>>
  /\ buffer = <<>>
  /\ toolMatch = NoMatch
  /\ inToolCall = FALSE
  /\ carryOver = <<>>
  /\ lastEmittedChar = ""
  /\ pendingBoundarySeparator = FALSE
  /\ callSequence = 0
  /\ out = <<>>
  /\ execLog = <<>>
  /\ settled = <<>>
  /\ resolved = <<>>
  /\ step = 0
  /\ overallText = <<>>
  /\ allParsedCalls = <<>>
  /\ textAccumulator = <<>>
  /\ parsedCalls = <<>>

\* the bounds of the inputs of the chunker
MaxBudget == 4
MaxGrow == 1

\* the contents syncToDiscord is called with first
ChunkTexts ==
  { <<"a", "b", " ", " ", "c", "d">>,
    <<"a", "a", "a", "a", "a", "a">>,
    <<"a", "b", " ", "c", "d", "\n", "e", "f", " ", "g", "h">>,
    <<"a", "b", "\n", "\n", "c", "d">>,
    Fence3 \o <<"j", "s", "\n", "a", "b", "\n", "c", "d", "\n">> \o Fence3,
    <<"a", "b", "\n">> \o Fence3 \o <<"\n", "c", "d", "\n">> \o Fence3 \o <<"\n", "e", "f">>,
    <<"a", " ", Backquote, "b", " ", "c", Backquote, " ", "d">> }

\* what the stream appends to the content between two calls
Suffixes == { <<"a">>, <<" ", "b">>, <<"\n">> }

\* Math.max(1, maxChunkLength)
safeMaxChunkLength == Max(1, maxChunkLength)

\* Math.max(1, Math.min(maxLastChunkLength, safeMaxChunkLength))
safeMaxLastChunkLength == Max(1, Min(maxLastChunkLength, safeMaxChunkLength))

\* chunkRaw up to its loop: the results of its early returns and of the
\* slicing without smart splitting, or the start of while (remaining.length > 0)
ChunkRawEnter(c, max) ==
  /\ rawContent' = c
  /\ chunkRawMax' = max
  /\ IF c = <<>>
     THEN /\ rawChunks' = <<>>
          /\ displayChunks' = <<>>
          /\ remaining' = <<>>
          /\ chunkPc' = "returned"
     ELSE IF max <= 0
     THEN /\ rawChunks' = <<c>>
          /\ displayChunks' = <<completeMarkdown(c)>>
          /\ remaining' = <<>>
          /\ chunkPc' = "returned"
     ELSE IF ~useSmartSplitting
     THEN /\ rawChunks' = FixedSlices(c, max)
          /\ displayChunks' = FixedSlices(c, max)
          /\ remaining' = <<>>
          /\ chunkPc' = "returned"
     ELSE /\ rawChunks' = <<>>
          /\ displayChunks' = <<>>
          /\ remaining' = c
          /\ chunkPc' = "loop"

\* syncToDiscord calls chunkMarkdownForEmbeds, which calls chunkRaw
chunkMarkdownForEmbedsCall ==
  /\ chunkPc = "call"
  /\ IF content = <<>>
     THEN /\ chunks' = <<>>
          /\ chunkPc' = "done"
          /\ UNCHANGED <<pass, rawContent, chunkRawMax, remaining, rawChunks,
                         displayChunks>>
     ELSE /\ pass' = "initial"
          /\ ChunkRawEnter(content, safeMaxChunkLength)
          /\ UNCHANGED chunks
  /\ UNCHANGED <<content, maxChunkLength, maxLastChunkLength, useSmartSplitting,
                 kept, previous, grown>>
  /\ UNCHANGED <<streamVars, splitVars, completeVars, pushVars, turnVars>>

\* one pass of while (remaining.length > 0), up to the next test of the
\* condition or the break
chunkRawLoop ==
  /\ chunkPc = "loop"
  /\ \E p \in {LoopBody(remaining, chunkRawMax)} :
       /\ rawChunks' = Append(rawChunks, p.raw)
       /\ displayChunks' = Append(displayChunks, p.display)
       /\ remaining' = p.next
       /\ chunkPc' = IF Len(p.next) > 0 THEN "loop" ELSE "returned"
  /\ UNCHANGED <<content, maxChunkLength, maxLastChunkLength, useSmartSplitting,
                 pass, rawContent, chunkRawMax, kept, chunks, previous, grown>>
  /\ UNCHANGED <<streamVars, splitVars, completeVars, pushVars, turnVars>>

\* initial.rawChunks.at(-1) ?? ""
lastRaw == IF rawChunks = <<>> THEN <<>> ELSE rawChunks[Len(rawChunks)]

\* chunkMarkdownForEmbeds that re-chunks with the budget of the last chunk from
\* the chunk before the last on: initial.displayChunks.slice(0, -2)
chunkMarkdownForEmbedsReturn_sliceTwo ==
  /\ chunkPc = "returned"
  /\ IF pass = "rechunk"
     THEN /\ chunks' = kept \o displayChunks
          /\ chunkPc' = "done"
          /\ UNCHANGED <<pass, rawContent, chunkRawMax, remaining, rawChunks,
                         displayChunks, kept>>
     ELSE IF \/ Len(rawChunks) = 0
             \/ safeMaxLastChunkLength = safeMaxChunkLength
             \/ Len(lastRaw) <= safeMaxLastChunkLength
     THEN /\ chunks' = displayChunks
          /\ chunkPc' = "done"
          /\ UNCHANGED <<pass, rawContent, chunkRawMax, remaining, rawChunks,
                         displayChunks, kept>>
     ELSE /\ pass' = "rechunk"
          /\ kept' = SubSeq(displayChunks, 1, Len(displayChunks) - 2)
          /\ ChunkRawEnter(lastRaw, safeMaxLastChunkLength)
          /\ UNCHANGED chunks
  /\ UNCHANGED <<content, maxChunkLength, maxLastChunkLength, useSmartSplitting,
                 previous, grown>>
  /\ UNCHANGED <<streamVars, splitVars, completeVars, pushVars, turnVars>>

\* chunkMarkdownForEmbeds after a chunkRaw has returned
chunkMarkdownForEmbedsReturn ==
  /\ chunkPc = "returned"
  /\ IF pass = "rechunk"
     THEN /\ chunks' = kept \o displayChunks
          /\ chunkPc' = "done"
          /\ UNCHANGED <<pass, rawContent, chunkRawMax, remaining, rawChunks,
                         displayChunks, kept>>
     ELSE IF \/ Len(rawChunks) = 0
             \/ safeMaxLastChunkLength = safeMaxChunkLength
             \/ Len(lastRaw) <= safeMaxLastChunkLength
     THEN /\ chunks' = displayChunks
          /\ chunkPc' = "done"
          /\ UNCHANGED <<pass, rawContent, chunkRawMax, remaining, rawChunks,
                         displayChunks, kept>>
     ELSE /\ pass' = "rechunk"
          /\ kept' = SubSeq(displayChunks, 1, Len(displayChunks) - 1)
          /\ ChunkRawEnter(lastRaw, safeMaxLastChunkLength)
          /\ UNCHANGED chunks
  /\ UNCHANGED <<content, maxChunkLength, maxLastChunkLength, useSmartSplitting,
                 previous, grown>>
  /\ UNCHANGED <<streamVars, splitVars, completeVars, pushVars, turnVars>>

\* the stream delivers more text: the next syncToDiscord has a longer content
ContentGrows ==
  /\ chunkPc = "done"
  /\ grown < MaxGrow
  /\ \E suffix \in Suffixes : content' = content \o suffix
  /\ previous' = chunks
  /\ grown' = grown + 1
  /\ chunkPc' = "call"
  /\ UNCHANGED <<maxChunkLength, maxLastChunkLength, useSmartSplitting, pass,
                 rawContent, chunkRawMax, remaining, rawChunks, displayChunks,
                 kept, chunks>>
  /\ UNCHANGED <<streamVars, splitVars, completeVars, pushVars, turnVars>>

NextChunk ==
  chunkMarkdownForEmbedsCall \/ chunkRawLoop \/ chunkMarkdownForEmbedsReturn
    \/ ContentGrows

InitChunk ==
  /\ StreamIdle
  /\ SplitIdle
  /\ CompleteIdle
  /\ PushIdle
  /\ TurnIdle
  /\ HostIdle
  /\ content \in ChunkTexts
  /\ maxChunkLength \in 1..MaxBudget
  /\ maxLastChunkLength \in 1..MaxBudget
  /\ useSmartSplitting \in BOOLEAN
  /\ chunkPc = "call"
  /\ pass = "initial"
  /\ rawContent = <<>>
  /\ chunkRawMax = 0
  /\ remaining = <<>>
  /\ rawChunks = <<>>
  /\ displayChunks = <<>>
  /\ kept = <<>>
  /\ chunks = <<>>
  /\ previous = <<>>
  /\ grown = 0

\* the chunker alone
SpecChunk == InitChunk /\ [][NextChunk]_vars

(***************************************************************************)
(* The splitter's two exported functions, called with one input each.      *)
(***************************************************************************)
MaxSplitBacktrack == 2

\* maxBacktrack = 100, the default of findSafeSplitPoint and of the options
DefaultBacktrack == 100

\* the sources the two functions are called with
SplitSources ==
  { <<"a", "b", " ", "c", "d", "\n", "e", "f">>,
    <<"[", "a", "b", "]", "(", "c", "d", ")", " ", "e", "f">>,
    <<"a", " ", "*", "*", "b", "c", "*", "*", " ", "d">>,
    <<"a", " ", Backquote, "b", Backquote, " ", "c">>,
    <<"a", "b", "\n">> \o Fence3 \o <<"j", "s", "\n", "a", "b", "c", "d", "e", "f",
        "g", "h", "\n">> \o Fence3 \o <<"\n", "c">>,
    Fence3 \o <<"\n", "a", "b", "\n", "c", "d", "\n">> \o Fence3 }

\* findSafeSplitPoint(source, target, maxBacktrack) is called and returns
CallFindSafeSplitPoint ==
  /\ splitPc = "call"
  /\ splitPc' = "findSafeSplitPoint"
  /\ splitResult' = findSafeSplitPoint(splitSource, splitTarget, splitBacktrack)
  /\ UNCHANGED <<splitSource, splitTarget, splitBacktrack>>
  /\ UNCHANGED <<streamVars, chunkVars, completeVars, pushVars, turnVars>>

\* findLexicalSafeSplitPoint(source, target, { maxBacktrack, newlineBacktrack })
\* is called and returns
CallFindLexicalSafeSplitPoint ==
  /\ splitPc = "call"
  /\ splitPc' = "findLexicalSafeSplitPoint"
  /\ splitResult' = findLexicalSafeSplitPoint(splitSource, splitTarget,
                                               splitBacktrack, splitBacktrack)
  /\ UNCHANGED <<splitSource, splitTarget, splitBacktrack>>
  /\ UNCHANGED <<streamVars, chunkVars, completeVars, pushVars, turnVars>>

NextSplit == CallFindSafeSplitPoint \/ CallFindLexicalSafeSplitPoint

InitSplit ==
  /\ StreamIdle
  /\ ChunkIdle
  /\ CompleteIdle
  /\ PushIdle
  /\ TurnIdle
  /\ HostIdle
  /\ splitSource \in SplitSources
  /\ splitTarget \in 0..(Len(splitSource) + 1)
  /\ splitBacktrack \in (1..MaxSplitBacktrack) \cup {DefaultBacktrack}
  /\ splitPc = "call"
  /\ splitResult = 0

\* the splitter alone
SpecSplit == InitSplit /\ [][NextSplit]_vars

(***************************************************************************)
(* The completer's exported functions, called with one input each.         *)
(***************************************************************************)
\* the texts the completer is called with
CompleteTexts ==
  { <<"a", "b", " ", "c", "d">>,
    <<"a", " ", Backquote, "b", " ", "c", Backquote, " ", "d">>,
    <<"a", " ", Backquote, "b", " ", "c">>,
    Fence3 \o <<"j", "s", "\n", "a", "b", "\n">> \o Fence3 \o <<"\n", "c", "d">>,
    Fence3 \o <<"\n", "a", "b", " ", "c", "d", "\n">> \o Fence3,
    Fence3 \o <<"j", "s", "\n", "a", "b", "\n", "c", "d">>,
    <<"a", "b", "\n">> \o Fence3 \o <<"\n", "c", "d">> }

\* completeMarkdown(input) is called and returns
CallCompleteMarkdown ==
  /\ completePc = "call"
  /\ completePc' = "completeMarkdown"
  /\ completeOut' = [completed |-> completeMarkdown(completeInput), overflow |-> <<>>]
  /\ UNCHANGED <<completeInput, completeSplitAt>>
  /\ UNCHANGED <<streamVars, chunkVars, splitVars, pushVars, turnVars>>

\* completeMarkdown is called with the text it has returned: overflow keeps
\* the result of the first call
CallCompleteMarkdownAgain ==
  /\ completePc = "completeMarkdown"
  /\ completePc' = "completeMarkdown again"
  /\ completeOut' = [completed |-> completeMarkdown(completeOut.completed),
                     overflow |-> completeOut.completed]
  /\ UNCHANGED <<completeInput, completeSplitAt>>
  /\ UNCHANGED <<streamVars, chunkVars, splitVars, pushVars, turnVars>>

\* tokenCompleteAt(input, splitAt) is called and returns
CallTokenCompleteAt ==
  /\ completePc = "call"
  /\ completePc' = "tokenCompleteAt"
  /\ completeOut' = tokenCompleteAt(completeInput, completeSplitAt)
  /\ UNCHANGED <<completeInput, completeSplitAt>>
  /\ UNCHANGED <<streamVars, chunkVars, splitVars, pushVars, turnVars>>

NextComplete == CallCompleteMarkdown \/ CallCompleteMarkdownAgain \/ CallTokenCompleteAt

InitComplete ==
  /\ StreamIdle
  /\ ChunkIdle
  /\ SplitIdle
  /\ PushIdle
  /\ TurnIdle
  /\ HostIdle
  /\ completeInput \in CompleteTexts
  /\ completeSplitAt \in 0..(Len(completeInput) + 1)
  /\ completePc = "call"
  /\ completeOut = [completed |-> <<>>, overflow |-> <<>>]

\* the completer alone
SpecComplete == InitComplete /\ [][NextComplete]_vars

\* const LOG_LEVELS = ["debug", "info", "warn", "error"]
LOG_LEVELS == <<"debug", "info", "warn", "error">>

\* LOG_LEVELS.indexOf(level)
LevelIndex(level) == CHOOSE n \in 1..Len(LOG_LEVELS) : LOG_LEVELS[n] = level

\* Logger.log(level, message): nothing is written below the logger's level
log(entries, level, message) ==
  IF LevelIndex(level) < LevelIndex(logLevel) THEN entries
  ELSE Append(entries, [level |-> level, message |-> message])

(***************************************************************************)
(* runStreamAttempt, its stream consumer and startContentPusher, under     *)
(* messageCreate's retry loop.  usePlainResponses is set, so getMaxLength   *)
(* answers the same length for both of its arguments, and smart splitting  *)
(* is off.                                                                 *)
(***************************************************************************)
\* what getMaxLength answers (4000 in the program)
PushMaxLength == 2

\* the largest max_retry a configuration sets
MaxRetryConfig == 2

\* the 3 of this.cachedConfig.max_retry ?? 3
DefaultMaxRetry == 3

\* Math.max(1, this.cachedConfig.max_retry ?? 3)
MaxRetry == Max(1, IF max_retry = <<>> THEN DefaultMaxRetry ELSE max_retry[1])

\* the fragment sequences textStream may deliver in one attempt
PushStreams ==
  { <<>>,
    << <<>> >>,
    << <<"a", "b">> >>,
    << <<"a">>, <<"b", "c">> >>,
    << <<"a", "b", "c">>, <<"d">> >> }

\* description and colour of chunk k of displayChunks, as the loop of
\* syncToDiscord computes them: the indicator goes on the last chunk while
\* streaming is set
Description(shown, k) ==
  [text |-> shown[k], indicator |-> streaming /\ k = Len(shown)]

\* the loop of syncToDiscord from index i on, up to its next await or its
\* return, followed by what the while (true) loop does with the answer.
\* shown are the displayChunks, inflight the updates not yet settled, sent is sentDescriptions and
\* did is didUpdate
SyncFrom_exitsEarly(shown, i, did, sent, inflight) ==
  LET need == {k \in i..Len(shown) :
                 k > Len(sent) \/ sent[k] # Description(shown, k)}
  IN IF need # {}
     THEN LET k == CHOOSE m \in need : \A n \in need : m <= n
          IN /\ pusherPc' = "update"
             /\ pushIndex' = k
             /\ pendingDescription' = Description(shown, k)
             /\ outstanding' = Append(inflight, k)
     ELSE /\ pusherPc' = IF streaming THEN "sleep" ELSE "exited"
          /\ pushIndex' = 0
          /\ pendingDescription' = [text |-> <<>>, indicator |-> FALSE]
          /\ outstanding' = inflight

\* the loop of syncToDiscord from index i on, up to its next await or its
\* return, followed by what the while (true) loop does with the answer.
\* shown are the displayChunks, inflight the updates not yet settled, sent is sentDescriptions and
\* did is didUpdate
SyncFrom(shown, i, did, sent, inflight) ==
  LET need == {k \in i..Len(shown) :
                 k > Len(sent) \/ sent[k] # Description(shown, k)}
  IN IF need # {}
     THEN LET k == CHOOSE m \in need : \A n \in need : m <= n
          IN /\ pusherPc' = "update"
             /\ pushIndex' = k
             /\ pendingDescription' = Description(shown, k)
             /\ outstanding' = Append(inflight, k)
     ELSE /\ pusherPc' = IF streaming THEN "sleep" ELSE IF did THEN "tick" ELSE "exited"
          /\ pushIndex' = 0
          /\ pendingDescription' = [text |-> <<>>, indicator |-> FALSE]
          /\ outstanding' = inflight

\* for await (const textPart of textStream): contentAcc += textPart
ConsumeFragment_afterUpdates ==
  /\ attemptPc = "running"
  /\ pushStream # <<>>
  /\ outstanding = <<>>
  /\ contentAcc' = contentAcc \o Head(pushStream)
  /\ pushStream' = Tail(pushStream)
  /\ UNCHANGED <<streaming, pusherPc, responseQueue, pushIndex, pendingDescription,
                 sentDescriptions, outstanding, attemptPc, attemptNo, streamThrew>>
  /\ UNCHANGED <<streamVars, chunkVars, splitVars, completeVars, turnVars>>

\* for await (const textPart of textStream): contentAcc += textPart
ConsumeFragment ==
  /\ attemptPc = "running"
  /\ pushStream # <<>>
  /\ contentAcc' = contentAcc \o Head(pushStream)
  /\ pushStream' = Tail(pushStream)
  /\ UNCHANGED <<streaming, pusherPc, responseQueue, pushIndex, pendingDescription,
                 sentDescriptions, outstanding, attemptPc, attemptNo, streamThrew>>
  /\ UNCHANGED <<streamVars, chunkVars, splitVars, completeVars, turnVars>>

\* textStream is exhausted: resolve(), and streamDone.then clears streaming
ConsumerDone ==
  /\ attemptPc = "running"
  /\ pushStream = <<>>
  /\ ~streamThrew
  /\ streaming
  /\ streaming' = FALSE
  /\ UNCHANGED <<pushStream, contentAcc, pusherPc, responseQueue, pushIndex,
                 pendingDescription, sentDescriptions, outstanding, attemptPc, attemptNo, streamThrew>>
  /\ UNCHANGED <<streamVars, chunkVars, splitVars, completeVars, turnVars>>

\* a pass of while (true): getContent() and the call of syncToDiscord
PusherTick_overlapping ==
  /\ pusherPc \in {"tick", "update"}
  /\ responseQueue' = chunkRawDisplayChunks(contentAcc, Max(1, PushMaxLength), FALSE)
  /\ SyncFrom(responseQueue', 1, FALSE, sentDescriptions, outstanding)
  /\ UNCHANGED <<pushStream, contentAcc, streaming, sentDescriptions, attemptPc, attemptNo, streamThrew>>
  /\ UNCHANGED <<streamVars, chunkVars, splitVars, completeVars, turnVars>>

\* a pass of while (true): getContent() and the call of syncToDiscord
PusherTick ==
  /\ pusherPc = "tick"
  /\ responseQueue' = chunkRawDisplayChunks(contentAcc, Max(1, PushMaxLength), FALSE)
  /\ SyncFrom(responseQueue', 1, FALSE, sentDescriptions, outstanding)
  /\ UNCHANGED <<pushStream, contentAcc, streaming, sentDescriptions, attemptPc, attemptNo, streamThrew>>
  /\ UNCHANGED <<streamVars, chunkVars, splitVars, completeVars, turnVars>>

\* the awaited parent.reply or safeEdit settles: the description is recorded
\* and the loop of syncToDiscord goes on
UpdateSettles ==
  /\ pusherPc = "update"
  /\ sentDescriptions' =
       IF pushIndex > Len(sentDescriptions)
       THEN Append(sentDescriptions, pendingDescription)
       ELSE [sentDescriptions EXCEPT ![pushIndex] = pendingDescription]
  /\ LET j == CHOOSE n \in 1..Len(outstanding) : outstanding[n] = pushIndex
     IN SyncFrom(responseQueue, pushIndex + 1, TRUE, sentDescriptions',
                 SubSeq(outstanding, 1, j - 1) \o SubSeq(outstanding, j + 1, Len(outstanding)))
  /\ UNCHANGED <<pushStream, contentAcc, streaming, responseQueue, attemptPc, attemptNo, streamThrew>>
  /\ UNCHANGED <<streamVars, chunkVars, splitVars, completeVars, turnVars>>

\* await setTimeout(EDIT_DELAY_SECONDS * 1000) returns
PusherWakes ==
  /\ pusherPc = "sleep"
  /\ pusherPc' = "tick"
  /\ UNCHANGED <<pushStream, contentAcc, streaming, responseQueue, pushIndex,
                 pendingDescription, sentDescriptions, outstanding, attemptPc, attemptNo, streamThrew>>
  /\ UNCHANGED <<streamVars, chunkVars, splitVars, completeVars, turnVars>>

\* a new call of runStreamAttempt: its own contentAcc, stream and pusher
StartAttempt ==
  /\ pushStream' \in PushStreams
  /\ contentAcc' = <<>>
  /\ streaming' = TRUE
  /\ pusherPc' = "tick"
  /\ responseQueue' = <<>>
  /\ sentDescriptions' = <<>>
  /\ attemptPc' = "running"
  /\ streamThrew' = FALSE
  /\ UNCHANGED <<pushIndex, pendingDescription, outstanding>>

\* streamingDonePromise and pusherPromise have settled: with no content the
\* attempt throws, and messageCreate retries while i + 1 < maxRetry; after
\* the last attempt its catch logs the error and its finally takes the id out
\* of cancellationMap
AttemptEnds_emptyIsFine ==
  /\ attemptPc = "running"
  /\ ~streaming
  /\ pusherPc = "exited"
  /\ IF FALSE
     THEN /\ attemptNo' = attemptNo + 1
          /\ StartAttempt
          /\ logs' = log(logs, "error",
                         <<"Encountered error while generating response, trying">>)
          /\ UNCHANGED cancellationMap
     ELSE /\ attemptPc' = "succeeded"
          /\ logs' = IF FALSE
                      THEN log(logs, "error", <<"Error while generating response">>)
                      ELSE logs
          /\ cancellationMap' = cancellationMap \ {GenerationId}
          /\ UNCHANGED <<attemptNo, pushStream, contentAcc, streaming, pusherPc, responseQueue,
                         sentDescriptions, pushIndex, pendingDescription, outstanding,
                         streamThrew>>
  /\ UNCHANGED <<streamVars, chunkVars, splitVars, completeVars>>
  /\ UNCHANGED <<max_retry, aborted, cancelledDuring, logLevel, toolCalls, logPc, mergeVars, permissionVars, lockVars>>

\* streamingDonePromise and pusherPromise have settled: with no content the
\* attempt throws, and messageCreate retries while i + 1 < maxRetry; after
\* the last attempt its catch logs the error and its finally takes the id out
\* of cancellationMap
AttemptEnds_oneMore ==
  /\ attemptPc = "running"
  /\ ~streaming
  /\ pusherPc = "exited"
  /\ IF Len(contentAcc) = 0 /\ attemptNo # MaxRetry
     THEN /\ attemptNo' = attemptNo + 1
          /\ StartAttempt
          /\ logs' = log(logs, "error",
                         <<"Encountered error while generating response, trying">>)
          /\ UNCHANGED cancellationMap
     ELSE /\ attemptPc' = IF Len(contentAcc) = 0 THEN "failed" ELSE "succeeded"
          /\ logs' = IF Len(contentAcc) = 0
                      THEN log(logs, "error", <<"Error while generating response">>)
                      ELSE logs
          /\ cancellationMap' = cancellationMap \ {GenerationId}
          /\ UNCHANGED <<attemptNo, pushStream, contentAcc, streaming, pusherPc, responseQueue,
                         sentDescriptions, pushIndex, pendingDescription, outstanding,
                         streamThrew>>
  /\ UNCHANGED <<streamVars, chunkVars, splitVars, completeVars>>
  /\ UNCHANGED <<max_retry, aborted, cancelledDuring, logLevel, toolCalls, logPc, mergeVars, permissionVars, lockVars>>

\* streamingDonePromise and pusherPromise have settled: with no content the
\* attempt throws, and messageCreate retries while i + 1 < maxRetry; after
\* the last attempt its catch logs the error and its finally takes the id out
\* of cancellationMap
AttemptEnds_keepsId ==
  /\ attemptPc = "running"
  /\ ~streaming
  /\ pusherPc = "exited"
  /\ IF Len(contentAcc) = 0 /\ attemptNo + 1 # MaxRetry
     THEN /\ attemptNo' = attemptNo + 1
          /\ StartAttempt
          /\ logs' = log(logs, "error",
                         <<"Encountered error while generating response, trying">>)
          /\ UNCHANGED cancellationMap
     ELSE /\ attemptPc' = IF Len(contentAcc) = 0 THEN "failed" ELSE "succeeded"
          /\ logs' = IF Len(contentAcc) = 0
                      THEN log(logs, "error", <<"Error while generating response">>)
                      ELSE logs
          /\ UNCHANGED cancellationMap
          /\ UNCHANGED <<attemptNo, pushStream, contentAcc, streaming, pusherPc, responseQueue,
                         sentDescriptions, pushIndex, pendingDescription, outstanding,
                         streamThrew>>
  /\ UNCHANGED <<streamVars, chunkVars, splitVars, completeVars>>
  /\ UNCHANGED <<max_retry, aborted, cancelledDuring, logLevel, toolCalls, logPc, mergeVars, permissionVars, lockVars>>

\* streamingDonePromise and pusherPromise have settled: with no content the
\* attempt throws, and messageCreate retries while i + 1 < maxRetry; after
\* the last attempt its catch logs the error and its finally takes the id out
\* of cancellationMap
AttemptEnds ==
  /\ attemptPc = "running"
  /\ ~streaming
  /\ pusherPc = "exited"
  /\ IF Len(contentAcc) = 0 /\ attemptNo + 1 # MaxRetry
     THEN /\ attemptNo' = attemptNo + 1
          /\ StartAttempt
          /\ logs' = log(logs, "error",
                         <<"Encountered error while generating response, trying">>)
          /\ UNCHANGED cancellationMap
     ELSE /\ attemptPc' = IF Len(contentAcc) = 0 THEN "failed" ELSE "succeeded"
          /\ logs' = IF Len(contentAcc) = 0
                      THEN log(logs, "error", <<"Error while generating response">>)
                      ELSE logs
          /\ cancellationMap' = cancellationMap \ {GenerationId}
          /\ UNCHANGED <<attemptNo, pushStream, contentAcc, streaming, pusherPc, responseQueue,
                         sentDescriptions, pushIndex, pendingDescription, outstanding,
                         streamThrew>>
  /\ UNCHANGED <<streamVars, chunkVars, splitVars, completeVars>>
  /\ UNCHANGED <<max_retry, aborted, cancelledDuring, logLevel, toolCalls, logPc, mergeVars, permissionVars, lockVars>>

\* textStream throws: the async function that reads it ends without resolve()
StreamThrows ==
  /\ attemptPc = "running"
  /\ streaming
  /\ ~streamThrew
  /\ streamThrew' = TRUE
  /\ pushStream' = <<>>
  /\ UNCHANGED <<contentAcc, streaming, pusherPc, responseQueue, pushIndex, pendingDescription,
                 sentDescriptions, outstanding, attemptPc, attemptNo>>
  /\ UNCHANGED <<streamVars, chunkVars, splitVars, completeVars, turnVars>>

\* messageCreate enters its retry loop with i = 0
InitPush ==
  /\ StreamIdle
  /\ ChunkIdle
  /\ SplitIdle
  /\ CompleteIdle
  /\ pushStream \in PushStreams
  /\ contentAcc = <<>>
  /\ streaming = TRUE
  /\ pusherPc = "tick"
  /\ responseQueue = <<>>
  /\ pushIndex = 0
  /\ pendingDescription = [text |-> <<>>, indicator |-> FALSE]
  /\ sentDescriptions = <<>>
  /\ outstanding = <<>>
  /\ attemptPc = "running"
  /\ attemptNo = 0
  /\ streamThrew = FALSE
  /\ max_retry \in {<<>>} \cup {<<n>> : n \in 0..MaxRetryConfig}
  /\ cancellationMap = {GenerationId}
  /\ aborted = FALSE
  /\ cancelledDuring = "none"
  /\ HostIdle

\* one turn's stream attempts: consumer and pusher interleave freely
SpecPush ==
  InitPush /\ [][ConsumeFragment \/ ConsumerDone \/ PusherTick \/ UpdateSettles
                  \/ PusherWakes \/ AttemptEnds]_vars

\* one turn with everything that may happen to it: the stream may throw and
\* the cancel button may be pressed; every step of the consumer, of the
\* pusher and of the handler that can be taken is taken in the end
SpecTurn ==
  /\ InitPush
  /\ [][ConsumeFragment \/ ConsumerDone \/ StreamThrows \/ PusherTick \/ UpdateSettles
          \/ PusherWakes \/ AttemptEnds \/ Cancel]_vars
  /\ WF_vars(ConsumeFragment) /\ WF_vars(ConsumerDone) /\ WF_vars(PusherTick)
  /\ WF_vars(UpdateSettles) /\ WF_vars(PusherWakes) /\ WF_vars(AttemptEnds)


(***************************************************************************)
(* What is logged for a tool call: by onStepFinish of prepareStreamOptions *)
(* when the provider runs the tools, by textStreamOut in compatible mode.  *)
(* The input of a tool call is held as its JSON text.                      *)
(***************************************************************************)
\* the tool calls a finished step may carry
StepToolCalls ==
  LET calls == [toolName : {FETCH, <<"s">>}, input : {UrlPayload, <<"{", "}">>}]
  IN {<<>>} \cup {<<c>> : c \in calls} \cup {<<c, d>> : c, d \in calls}

\* the entries the loop of onStepFinish has written after the first n calls
RECURSIVE StepLogs(_, _)
StepLogs(entries, n) ==
  IF n = 0 THEN entries
  ELSE log(log(StepLogs(entries, n - 1), "info",
               <<"[Tool Call] Called: ", Backquote>> \o toolCalls[n].toolName \o <<Backquote>>),
           "debug", toolCalls[n].input)

\* onStepFinish: (step) => { for (const toolCall of step.toolCalls || []) ... }
OnStepFinish ==
  /\ logPc = "onStepFinish"
  /\ logPc' = "done"
  /\ logs' = StepLogs(logs, Len(toolCalls))
  /\ UNCHANGED <<logLevel, toolCalls>>
  /\ UNCHANGED <<streamVars, chunkVars, splitVars, completeVars, pushVars, cancelVars, mergeVars, permissionVars, lockVars>>

\* textStreamOut is about to execute the tool it found in the response
LogCompatibleCall ==
  /\ logPc = "compatible"
  /\ Len(toolCalls) = 1
  /\ logPc' = "done"
  /\ logs' = log(logs, "info",
                 <<"Calling tool in compatible mode: ">> \o toolCalls[1].toolName)
  /\ UNCHANGED <<logLevel, toolCalls>>
  /\ UNCHANGED <<streamVars, chunkVars, splitVars, completeVars, pushVars, cancelVars, mergeVars, permissionVars, lockVars>>

\* the starting states: a logger and one finished step
InitLog ==
  /\ StreamIdle /\ ChunkIdle /\ SplitIdle /\ CompleteIdle /\ PushIdle /\ TurnIdle
  /\ MergeIdle /\ PermissionIdle /\ LockIdle
  /\ logLevel \in {LOG_LEVELS[n] : n \in 1..Len(LOG_LEVELS)}
  /\ toolCalls \in StepToolCalls
  /\ logPc \in {"onStepFinish", "compatible"}
  /\ logs = <<>>

\* the logging of tool calls alone, for every level the logger can have
SpecLog == InitLog /\ [][OnStepFinish \/ LogCompatibleCall]_vars

(***************************************************************************)
(* mergeProviderOptions.                                                   *)
(***************************************************************************)
\* how many parts a call is given at most
MaxParts == 2

\* the parts of a call: undefined, or an object over the keys a and b whose
\* values may be null
MergeParts ==
  {Undefined} \cup
  UNION {{[defined |-> TRUE, entries |-> e] : e \in [keys -> {"v1", "v2", "null"}]} :
           keys \in SUBSET {"a", "b"}}

\* out after the loop for (const part of parts) has taken the first n parts
\* and assigned every entry whose value is null
RECURSIVE Merged_nullWins(_, _)
Merged_nullWins(parts, n) ==
  IF n = 0 THEN <<>>
  ELSE LET before == Merged_nullWins(parts, n - 1)
           part == parts[n]
       IN IF ~part.defined THEN before
          ELSE [k \in DOMAIN before \cup DOMAIN part.entries |->
                  IF k \in DOMAIN part.entries THEN part.entries[k] ELSE before[k]]

\* out after the loop for (const part of parts) has taken the first n parts
RECURSIVE Merged(_, _)
Merged(parts, n) ==
  IF n = 0 THEN <<>>
  ELSE LET before == Merged(parts, n - 1)
           part == parts[n]
           assigned == IF part.defined
                       THEN {k \in DOMAIN part.entries : part.entries[k] # "null"}
                       ELSE {}
       IN [k \in DOMAIN before \cup assigned |->
             IF k \in assigned THEN part.entries[k] ELSE before[k]]

\* mergeProviderOptions(...parts)
mergeProviderOptions(parts) ==
  LET result == Merged(parts, Len(parts))
  IN IF DOMAIN result = {} THEN Undefined ELSE [defined |-> TRUE, entries |-> result]

\* mergeProviderOptions is called and returns
CallMergeProviderOptions ==
  /\ mergePc = "call"
  /\ mergePc' = "returned"
  /\ mergeOut' = mergeProviderOptions(mergeParts)
  /\ UNCHANGED mergeParts
  /\ UNCHANGED <<streamVars, chunkVars, splitVars, completeVars, pushVars, cancelVars, logVars, permissionVars, lockVars>>

\* the starting states: one call of mergeProviderOptions
InitMerge ==
  /\ StreamIdle /\ ChunkIdle /\ SplitIdle /\ CompleteIdle /\ PushIdle /\ TurnIdle
  /\ LogIdle /\ PermissionIdle /\ LockIdle
  /\ mergeParts \in UNION {[1..n -> MergeParts] : n \in 0..MaxParts}
  /\ mergePc = "call"
  /\ mergeOut = Undefined

\* mergeProviderOptions alone, for every list of parts
SpecMerge == InitMerge /\ [][CallMergeProviderOptions]_vars

(***************************************************************************)
(* getChannelPermission.  The id lists of the configuration are used with  *)
(* includes and length only, so each is the set of its elements.           *)
(***************************************************************************)
\* the calls: one author u with or without the role r, in or out of the
\* channel c, under every configuration over these ids and a second user w;
\* allow_dms is <<>> when the configuration leaves it out
PermissionCalls ==
  [messageAuthorId : {"u"},
   isDM : BOOLEAN,
   roleIds : SUBSET {"r"},
   channelIds : SUBSET {"c"},
   allow_dms : {<<>>, <<TRUE>>, <<FALSE>>},
   adminIds : SUBSET {"u"},
   allowedUserIds : SUBSET {"u", "w"},
   blockedUserIds : SUBSET {"u"},
   allowedRoleIds : SUBSET {"r"},
   blockedRoleIds : SUBSET {"r"},
   allowedChannelIds : SUBSET {"c"},
   blockedChannelIds : SUBSET {"c"}]

\* getChannelPermission({ messageAuthorId, isDM, roleIds, channelIds })
getChannelPermission(p) ==
  LET allowDMs == IF p.allow_dms = <<>> THEN TRUE ELSE p.allow_dms[1]
      userIsAdmin == p.messageAuthorId \in p.adminIds
      allowAllUsers == IF p.isDM THEN p.allowedUserIds = {}
                       ELSE p.allowedUserIds = {} /\ p.allowedRoleIds = {}
      allowAllChannels == p.allowedChannelIds = {}
      isGoodUser == \/ allowAllUsers
                    \/ p.messageAuthorId \in p.allowedUserIds
                    \/ \E r \in p.roleIds : r \in p.allowedRoleIds
      isBadUser == \/ ~isGoodUser
                   \/ p.messageAuthorId \in p.blockedUserIds
                   \/ \E r \in p.roleIds : r \in p.blockedRoleIds
      goodByDMOrGlobal == IF p.isDM THEN allowDMs ELSE allowAllChannels
      isGoodChannel == \/ goodByDMOrGlobal
                       \/ \E c \in p.channelIds : c \in p.allowedChannelIds
      isBadChannel == \/ ~isGoodChannel
                      \/ \E c \in p.channelIds : c \in p.blockedChannelIds
  IN IF userIsAdmin THEN TRUE
     ELSE IF allowAllUsers /\ allowAllChannels THEN TRUE
     ELSE IF isBadUser \/ isBadChannel THEN FALSE
     ELSE TRUE

\* getChannelPermission is called and returns
CallGetChannelPermission ==
  /\ permissionPc = "call"
  /\ permissionPc' = "returned"
  /\ permitted' = getChannelPermission(permission)
  /\ UNCHANGED permission
  /\ UNCHANGED <<streamVars, chunkVars, splitVars, completeVars, pushVars, cancelVars, logVars, mergeVars, lockVars>>

\* the starting states: one call of getChannelPermission
InitPermission ==
  /\ StreamIdle /\ ChunkIdle /\ SplitIdle /\ CompleteIdle /\ PushIdle /\ TurnIdle
  /\ LogIdle /\ MergeIdle /\ LockIdle
  /\ permission \in PermissionCalls
  /\ permissionPc = "call"
  /\ permitted = FALSE

\* getChannelPermission alone, for every call and configuration
SpecPermission == InitPermission /\ [][CallGetChannelPermission]_vars

(***************************************************************************)
(* Lock.  A caller is "waiting" while its resolver is in the queue,        *)
(* "resumed" once release has called the resolver and the rest of acquire  *)
(* has not run yet, and "holding" from the return of acquire until it      *)
(* calls the release function it was given, which every call site does     *)
(* once.                                                                   *)
(***************************************************************************)
\* how many callers use the lock
MaxCallers == 4

LockCallers == 1..MaxCallers

\* release() that clears locked even when it wakes a waiter
Release_unlocks(c) ==
  /\ lockPc[c] = "holding"
  /\ IF waiting # <<>>
     THEN /\ waiting' = Tail(waiting)
          /\ lockPc' = [lockPc EXCEPT ![c] = "idle", ![Head(waiting)] = "resumed"]
          /\ locked' = FALSE
     ELSE /\ locked' = FALSE
          /\ lockPc' = [lockPc EXCEPT ![c] = "idle"]
          /\ UNCHANGED waiting
  /\ UNCHANGED <<streamVars, chunkVars, splitVars, completeVars, pushVars, cancelVars, logVars, mergeVars, permissionVars>>

\* the holder calls the function acquire returned: release()
Release(c) ==
  /\ lockPc[c] = "holding"
  /\ IF waiting # <<>>
     THEN /\ waiting' = Tail(waiting)
          /\ lockPc' = [lockPc EXCEPT ![c] = "idle", ![Head(waiting)] = "resumed"]
          /\ UNCHANGED locked
     ELSE /\ locked' = FALSE
          /\ lockPc' = [lockPc EXCEPT ![c] = "idle"]
          /\ UNCHANGED waiting
  /\ UNCHANGED <<streamVars, chunkVars, splitVars, completeVars, pushVars, cancelVars, logVars, mergeVars, permissionVars>>

\* acquire() up to its return or its await
Acquire(c) ==
  /\ lockPc[c] = "idle"
  /\ IF ~locked
     THEN /\ locked' = TRUE
          /\ lockPc' = [lockPc EXCEPT ![c] = "holding"]
          /\ UNCHANGED waiting
     ELSE /\ waiting' = Append(waiting, c)
          /\ lockPc' = [lockPc EXCEPT ![c] = "waiting"]
          /\ UNCHANGED locked
  /\ UNCHANGED <<streamVars, chunkVars, splitVars, completeVars, pushVars, cancelVars, logVars, mergeVars, permissionVars>>

\* acquire() after its await: this.locked = true; return () => this.release()
AcquireResumes(c) ==
  /\ lockPc[c] = "resumed"
  /\ locked' = TRUE
  /\ lockPc' = [lockPc EXCEPT ![c] = "holding"]
  /\ UNCHANGED waiting
  /\ UNCHANGED <<streamVars, chunkVars, splitVars, completeVars, pushVars, cancelVars, logVars, mergeVars, permissionVars>>

\* the starting states: one unlocked Lock with nobody waiting
InitLock ==
  /\ StreamIdle /\ ChunkIdle /\ SplitIdle /\ CompleteIdle /\ PushIdle /\ TurnIdle
  /\ LogIdle /\ MergeIdle /\ PermissionIdle
  /\ locked = FALSE
  /\ waiting = <<>>
  /\ lockPc = [c \in LockCallers |-> "idle"]

\* one Lock used by LockCallers, under every interleaving
SpecLock == InitLock /\ [][\E c \in LockCallers : Acquire(c) \/ Release(c) \/ AcquireResumes(c)]_vars

\* whether the loop is about to call the model again: textStreamOut is at the
\* top of while (true), runCompatibleStream at a loop head with step < maxToolLoops
LoopContinues ==
  /\ phase = "invoke"
  /\ impl = "run" => step < MaxToolLoops

(***************************************************************************)
(* Definitions used to state the properties.                               *)
(***************************************************************************)
\* whether s ends with lit
EndsWith(s, lit) ==
  Len(s) >= Len(lit) /\ SubSeq(s, Len(s) - Len(lit) + 1, Len(s)) = lit

\* whether short is a suffix of long
IsSuffix(short, long) == EndsWith(long, short)

\* whether lit occurs somewhere in s
Contains(s, lit) == \E i \in 1..(Len(s) + 1) : StartsWithAt(s, i, lit)

\* the texts yielded during model call n at the yield sites in sites, in order
PiecesOf(n, sites) ==
  LET idx == {i \in 1..Len(out) : out[i].call = n /\ out[i].site \in sites}
      f[i \in 0..Len(out)] ==
        IF i = 0 THEN <<>>
        ELSE IF i \in idx THEN Append(f[i - 1], out[i].text) ELSE f[i - 1]
  IN f[Len(out)]

\* the plain text yielded during model call n, the carry-over left out
PlainText(n) == Flat(PiecesOf(n, {"chunk", "malformed", "eos"}))

\* the tool-result parts held by the conversation state
AllResults ==
  LET f[i \in 0..Len(messages)] ==
        IF i = 0 THEN <<>> ELSE f[i - 1] \o messages[i].results
  IN f[Len(messages)]

\* the calls of tool.execute made for model call n
ExecutionsOf(n) == {i \in 1..Len(execLog) : execLog[i].call = n}

\* the calls of tool.execute made with the call id id
ExecutionsWithId(id) == {i \in 1..Len(execLog) : execLog[i].toolCallId = id}

\* the current response has been consumed and handled to the end of its stream
StreamHandled == invocations > 0 /\ phase # "stream" /\ pos = Len(resp)

\* the value {url: "x"}
UrlObject ==
  JVal("object", <<>>, <<[key |-> <<"u", "r", "l">>, val |-> JString(<<"x">>)]>>)

(***************************************************************************)
(* C1. However the text <tool-call tool="fetch">{"url":"x"}</tool-call> is *)
(* cut into fragments, textStreamOut detects exactly one tool call, with   *)
(* the name fetch and the arguments {url: "x"}, and yields none of the     *)
(* tag's characters as plain text.                                         *)
(***************************************************************************)
C1_FetchTagDetected ==
  (impl = "text" /\ resp = FetchTag) =>
     /\ \A i \in 1..Len(out) : out[i].call # invocations
     /\ pos < Len(resp) => ~toolMatch.found
     /\ pos = Len(resp) =>
          /\ toolMatch.found
          /\ toolMatch.full = FetchTag
          /\ toolMatch.name = FETCH
          /\ tryParseJson(toolMatch.payload) = UrlObject
     /\ Cardinality(ExecutionsOf(invocations)) <= 1
     /\ phase \in {"exec", "invoke"} =>
          \E i \in ExecutionsOf(invocations) :
             execLog[i].toolName = FETCH /\ execLog[i].input = UrlObject

C1_Witness ==
  /\ impl = "text" /\ resp = FetchTag /\ phase = "exec"
  /\ invocations = 2
  /\ execLog[Len(execLog)].input = UrlObject

(***************************************************************************)
(* C2. Whenever a response holds a well-formed tag, wherever the first one *)
(* sits and however the response is cut, that tag is recognised and its    *)
(* text does not reach the plain-text output.                              *)
(***************************************************************************)
C2_TagAlwaysRecognized ==
  (StreamHandled /\ TOOL_CALL_SINGLE(resp).found) =>
     /\ impl = "text" =>
          /\ toolMatch.found
          /\ toolMatch.full = TOOL_CALL_SINGLE(resp).full
          /\ ~Contains(Flat(PiecesOf(invocations, {"chunk", "malformed", "eos", "carry"})),
                       TOOL_CALL_SINGLE(resp).full)
     /\ impl = "run" =>
          /\ parsedCalls # <<>>
          /\ parsedCalls[1].toolName = TOOL_CALL_SINGLE(resp).name
          /\ ~Contains(textAccumulator, TOOL_CALL_SINGLE(resp).full)

(***************************************************************************)
(* C3. Text is held back only while it can still be the beginning of the   *)
(* opening literal: once the pending buffer with the new fragment cannot   *)
(* begin <tool-call, both have been yielded by the end of that step.       *)
(***************************************************************************)
C3_NonTagFlushedAtOnce ==
  (impl = "text" /\ phase = "stream") =>
     /\ inToolCall => maybeToolCallStart(buffer)
     /\ ~inToolCall => buffer = <<>>

(***************************************************************************)
(* C4. In the step in which the buffer comes to end with </tool-call>      *)
(* without parsing as a tag, the whole buffer is yielded as plain text,    *)
(* once and unchanged, buffering stops, and no tool call, tool execution   *)
(* or message results from it.                                             *)
(***************************************************************************)
C4_MalformedBufferFlushed ==
  [][ (impl = "text" /\ phase = "stream" /\ pos' > pos) =>
        LET chunk == SubSeq(resp, pos + 1, pos')
            buf == IF inToolCall THEN buffer \o chunk ELSE chunk
        IN ( /\ inToolCall \/ OpensToolCall(chunk, toolMatch)
             /\ EndsWith(buf, ToolCallEndLiteral)
             /\ ~TOOL_CALL_SINGLE(buf).found )
           => /\ out' = Append(out, [site |-> "malformed", call |-> invocations,
                                     text |-> buf])
              /\ buffer' = <<>>
              /\ ~inToolCall'
              /\ toolMatch' = toolMatch
              /\ execLog' = execLog
              /\ messages' = messages
              /\ phase' = "stream" ]_vars

C4_Witness ==
  /\ impl = "text"
  /\ \E i \in 1..Len(out) :
        /\ out[i].site = "malformed"
        /\ EndsWith(out[i].text, ToolCallEndLiteral)
        /\ Len(out[i].text) > Len(ToolCallEndLiteral)
  /\ ~toolMatch.found
  /\ phase = "done"

(***************************************************************************)
(* C5. When the stream ends while text is still buffered, the step that    *)
(* ends the dispatch cycle emits the buffered text as plain text.          *)
(***************************************************************************)
C5_BufferFlushedAtStreamEnd ==
  [][ (phase = "stream" /\ phase' # "stream") =>
        /\ (impl = "text" /\ inToolCall) =>
              /\ buffer # <<>>
              /\ out' = Append(out, [site |-> "eos", call |-> invocations,
                                     text |-> buffer])
        /\ (impl = "run" /\ buffer # <<>>) =>
              /\ textAccumulator' = textAccumulator \o buffer
              /\ overallText' = overallText \o textAccumulator \o buffer ]_vars

C5_Witness ==
  /\ impl = "text" /\ phase = "done"
  /\ out # <<>>
  /\ out[Len(out)].site = "eos"
  /\ maybeToolCallStart(out[Len(out)].text)
  /\ Len(out[Len(out)].text) > Len(ToolCallStartLiteral)

C7_OneToolCallPerResponse ==
  \A n \in 1..invocations : Cardinality(ExecutionsOf(n)) <= 1

(***************************************************************************)
(* C8. Once a response has been handled, every tag match detected in it    *)
(* that names an executable tool has caused exactly one call of execute,   *)
(* and nothing else has caused one.                                        *)
(***************************************************************************)
C8_ExecuteOncePerMatch ==
  /\ \A i, j \in 1..Len(execLog) :
        execLog[i].toolCallId = execLog[j].toolCallId => i = j
  /\ (impl = "text" /\ StreamHandled) =>
        /\ (toolMatch.found /\ Executable(toolMatch.name)) =>
              /\ Cardinality(ExecutionsOf(invocations)) = 1
              /\ \A i \in ExecutionsOf(invocations) :
                    /\ execLog[i].toolName = toolMatch.name
                    /\ execLog[i].input = tryParseJson(toolMatch.payload)
        /\ ~(toolMatch.found /\ Executable(toolMatch.name)) =>
              ExecutionsOf(invocations) = {}
        /\ \A n \in 1..(invocations - 1) : Cardinality(ExecutionsOf(n)) = 1
  /\ (impl = "run" /\ StreamHandled) =>
        /\ \A k \in 1..Len(allParsedCalls) :
              Cardinality(ExecutionsWithId(allParsedCalls[k].callId))
                = IF Executable(allParsedCalls[k].toolName) THEN 1 ELSE 0
        /\ \A i \in 1..Len(execLog) :
              \E k \in 1..Len(allParsedCalls) :
                 /\ allParsedCalls[k].callId = execLog[i].toolCallId
                 /\ allParsedCalls[k].toolName = execLog[i].toolName

C8_Witness ==
  /\ impl = "run" /\ phase = "done"
  /\ Len(allParsedCalls) = 3
  /\ Len(execLog) = 3

(***************************************************************************)
(* C9. A detected tag that names a tool that is absent or cannot be        *)
(* executed leaves the result "Tool not available: NAME" in the            *)
(* conversation state and does not end the turn.                           *)
(***************************************************************************)
C9_UnknownToolFeedsErrorBack ==
  /\ (impl = "text" /\ StreamHandled /\ toolMatch.found /\ ~Executable(toolMatch.name)) =>
        /\ phase # "done"
        /\ \E i \in 1..Len(AllResults) :
              AllResults[i].value = <<"Tool not available: ", toolMatch.name>>
  /\ (impl = "run" /\ phase = "invoke" /\ step > 0) =>
        \A k \in 1..Len(parsedCalls) :
           ~Executable(parsedCalls[k].toolName) =>
              \E i \in 1..Len(AllResults) :
                 /\ AllResults[i].toolCallId = parsedCalls[k].callId
                 /\ AllResults[i].value = <<"Tool not available: ", parsedCalls[k].toolName>>

(***************************************************************************)
(* Definitions for C10: what the conversation state holds for a call of    *)
(* tool.execute that threw.                                                *)
(***************************************************************************)
\* the model call during which the tool call with the id id was executed
CallOf(id) == execLog[CHOOSE i \in 1..Len(execLog) : execLog[i].toolCallId = id].call

\* the results the conversation state holds for the call id id
ResultsFor(id) == {i \in 1..Len(AllResults) : AllResults[i].toolCallId = id}

ThrowHandled(s) ==
  /\ Cardinality(ResultsFor(s.toolCallId)) = 1
  /\ \A i \in ResultsFor(s.toolCallId) :
        /\ AllResults[i].outType = "error-text"
        /\ AllResults[i].value = <<"Tool execution failed: ", s.value>>

\* C10, as claimed: a throw of tool.execute never leaves the loop, its call
\* has exactly one result in the conversation state, the error text
\* "Tool execution failed: MESSAGE", and whenever the turn has completed the
\* model has been invoked again after the throw.
C10_ThrowAlwaysReinvokes ==
  /\ phase # "failed"
  /\ \A k \in 1..Len(settled) :
        settled[k].threw =>
           /\ ThrowHandled(settled[k])
           /\ phase = "done" => invocations > CallOf(settled[k].toolCallId)

\* C10, as the code has it: a throw of tool.execute never leaves the loop and
\* its call has exactly one result, the error text "Tool execution failed:
\* MESSAGE"; the model is invoked again after the throw unless
\* runCompatibleStream has used up its maxToolLoops iterations, in which case
\* the turn returns normally without another invocation.
C10_ThrowIsolated ==
  /\ phase # "failed"
  /\ \A k \in 1..Len(settled) :
        settled[k].threw =>
           /\ ThrowHandled(settled[k])
           /\ phase = "done" =>
                \/ invocations > CallOf(settled[k].toolCallId)
                \/ /\ impl = "run"
                   /\ step = MaxToolLoops
                   /\ invocations = MaxToolLoops

\* runCompatibleStream has returned after two throws: the model was invoked
\* again after the first, the second came in the last permitted iteration
C10_Witness ==
  /\ impl = "run" /\ phase = "done"
  /\ Len(settled) >= 2
  /\ settled[1].threw /\ ThrowHandled(settled[1])
  /\ settled[Len(settled)].threw /\ ThrowHandled(settled[Len(settled)])
  /\ invocations > CallOf(settled[1].toolCallId)
  /\ invocations = CallOf(settled[Len(settled)].toolCallId)

(***************************************************************************)
(* C11. The model is never invoked more often than the configured maximum  *)
(* (max_steps, here MaxToolLoops): whenever the loop is about to call the  *)
(* model again, fewer than MaxToolLoops calls have been made.              *)
(***************************************************************************)
C11_InvocationsBounded ==
  /\ invocations <= MaxToolLoops
  /\ LoopContinues => invocations < MaxToolLoops

\* the resolve calls made so far for the promise what
ResolvedAs(what) == {i \in 1..Len(resolved) : resolved[i].what = what}

(***************************************************************************)
(* C12. Once a response of textStreamOut has ended with no tool call       *)
(* detected, the loop is in Done and can make no further model call; the   *)
(* finish reason, the warnings and the response messages have each been    *)
(* resolved exactly once, the finish reason being that of the last model   *)
(* call, the warnings those of every call and the messages every message   *)
(* the turn appended; before Done nothing has been resolved.               *)
(***************************************************************************)
C12_NoToolCallReachesDone ==
  /\ (impl = "text" /\ phase # "done") => resolved = <<>>
  /\ (impl = "text" /\ StreamHandled /\ ~toolMatch.found) =>
        /\ phase = "done"
        /\ ~ENABLED TextInvoke
        /\ \A what \in {"finishReason", "warnings", "response"} :
              Cardinality(ResolvedAs(what)) = 1
        /\ \A i \in ResolvedAs("finishReason") : resolved[i].calls = {invocations}
        /\ \A i \in ResolvedAs("warnings") : resolved[i].calls = 1..invocations
        /\ \A i \in ResolvedAs("response") :
              resolved[i].msgs = SubSeq(messages, 2, Len(messages))

C12_Witness ==
  /\ impl = "text" /\ phase = "done" /\ ~toolMatch.found
  /\ invocations = 2
  /\ Cardinality(ResolvedAs("finishReason")) = 1
  /\ Len(messages) = 4

ClaimedInput(payload) ==
  IF payload = <<>> THEN JUndefined
  ELSE IF JSONparse(payload).ok THEN JSONparse(payload).val
  ELSE JString(payload)

(***************************************************************************)
(* C14. The value passed to tool.execute is the JSON-parsed payload when   *)
(* the payload is valid JSON, the raw payload string when it is not, and   *)
(* undefined when the payload is empty.                                    *)
(***************************************************************************)
C14_ExecuteInputIsPayload ==
  /\ (impl = "text" /\ phase = "exec") =>
        execLog[Len(execLog)].input = ClaimedInput(toolMatch.payload)
  /\ (impl = "run" /\ phase = "exec") =>
        \A k \in 1..Len(parsedCalls) :
           \A i \in ExecutionsWithId(parsedCalls[k].callId) :
              execLog[i].input = ClaimedInput(parsedCalls[k].rawArguments)


(***************************************************************************)
(* The chunker and the splitter.                                           *)
(***************************************************************************)
\* C15: whenever chunkRaw returns, its raw chunks, concatenated in order,
\* are exactly the content it was called with: no character is dropped,
\* added or reordered.
C15_RawChunksRebuildContent ==
  chunkPc = "returned" => Flat(rawChunks) = rawContent


\* C16: when the content has grown by a suffix and its chunks are at least
\* as many as before, every chunk but the last of the earlier result is the
\* same chunk at the same position of the new result.
C16_EarlierChunksStable ==
  (chunkPc = "done" /\ grown > 0 /\ Len(chunks) >= Len(previous))
    => \A i \in 1..(Len(previous) - 1) : chunks[i] = previous[i]

\* C17: every chunk chunkMarkdownForEmbeds returns holds an even number of
\* backticks, the paired marker of code.
C17_ChunksBalanced ==
  chunkPc = "done" =>
    \A i \in 1..Len(chunks) :
      Cardinality({k \in 1..Len(chunks[i]) : chunks[i][k] = Backquote}) % 2 = 0

\* C18: the offset findSafeSplitPoint returns is never strictly inside an
\* unsafe zone of the text.
C18_SplitOffsetIsSafe ==
  splitPc = "findSafeSplitPoint"
    => isPositionSafe(splitResult,
                      getUnsafeZones(fromMarkdown(splitSource)).zones)

\* C20: when the target of findLexicalSafeSplitPoint lies inside the content
\* of a fenced code block, the offset it returns is right after a newline.
C20_FenceContentSplitsAfterNewline ==
  (/\ splitPc = "findLexicalSafeSplitPoint"
   /\ \E k \in 1..Len(getUnsafeZones(fromMarkdown(splitSource)).codeFences) :
        LET fence == getUnsafeZones(fromMarkdown(splitSource)).codeFences[k]
        IN splitTarget > fence.contentStart /\ splitTarget < fence.end)
    => (splitResult >= 1 /\ splitSource[splitResult] = "\n")

C21_RechunkKeepsEarlierChunks ==
  (chunkPc = "done" /\ content # <<>>)
    => \A i \in 1..(Len(chunkRawDisplayChunks(content, safeMaxChunkLength,
                                              useSmartSplitting)) - 1) :
         /\ i <= Len(chunks)
         /\ chunks[i] = chunkRawDisplayChunks(content, safeMaxChunkLength,
                                             useSmartSplitting)[i]

\* the second pass has cut the last chunk of a primary pass of several chunks
\* into more than one chunk
C21_Witness ==
  /\ chunkPc = "done"
  /\ pass = "rechunk"
  /\ kept # <<>>
  /\ Len(chunks) > Len(kept) + 1

\* C22: completing a completed text changes nothing: the second
\* completeMarkdown returns the text the first one returned.
C22_CompleteIdempotent ==
  completePc = "completeMarkdown again" => completeOut.completed = completeOut.overflow

\* the characters the completer closes and reopens a span with
PairedMarkers == {Backquote, "*", "_", "~", "$"}

\* C23: tokenCompleteAt(t, k) returns as completed the first k characters
\* of t followed by closers only, and as overflow the rest of t behind the
\* openers of those closers (nothing when there is no rest).
C23_CompleteAtKeepsText ==
  completePc = "tokenCompleteAt" =>
    LET k == Min(completeSplitAt, Len(completeInput))
        closers == SliceFrom(completeOut.completed, k)
        openers == [i \in 1..Len(closers) |-> closers[Len(closers) + 1 - i]]
    IN /\ Len(completeOut.completed) >= k
       /\ Slice(completeOut.completed, 0, k) = Slice(completeInput, 0, k)
       /\ \A i \in 1..Len(closers) : closers[i] \in PairedMarkers
       /\ completeOut.overflow =
            IF k = Len(completeInput) THEN <<>>
            ELSE openers \o SliceFrom(completeInput, k)

\* the number of code fences in text, counted from position i on
RECURSIVE FenceCount(_, _)
FenceCount(text, i) ==
  IF i + 2 > Len(text) THEN 0
  ELSE IF StartsWithAt(text, i, Fence3) THEN 1 + FenceCount(text, i + 3)
  ELSE FenceCount(text, i + 1)

C25_CodeSpansVerbatim ==
  completePc = "completeMarkdown" =>
    \A n \in 1..Len(fromMarkdown(completeInput)) :
      fromMarkdown(completeInput)[n].type \in {"code", "inlineCode"}
        => Contains(completeOut.completed,
                    Slice(completeInput, fromMarkdown(completeInput)[n].start,
                          fromMarkdown(completeInput)[n].end))

\* C26: maybeYieldBoundarySeparator(prev, next), as the stream calls it for
\* the first fragment after a tool call, returns a single space exactly when
\* the first character of next is prev and is one of the paired markers, and
\* the empty text otherwise: the fragment is yielded behind a space in the
\* first case and on its own in every other.
C26_SeparatorExactlyForSameMarker ==
  [][(pendingBoundarySeparator /\ ~pendingBoundarySeparator') =>
       LET next == out'[Len(out')].text
       IN IF next[1] = lastEmittedChar /\ lastEmittedChar \in PairedMarkers
          THEN /\ Len(out') = Len(out) + 2
               /\ out'[Len(out') - 1].site = "sep"
               /\ out'[Len(out') - 1].text = <<" ">>
          ELSE /\ Len(out') = Len(out) + 1
               /\ out'[Len(out')].site = "chunk"]_vars

\* the second response has begun with the marker yielded last, and the
\* separator asked for was a space, yielded before the fragment
C26_Witness ==
  /\ \E i \in 2..Len(out) :
        /\ out[i - 1].site = "sep"
        /\ out[i].text[1] = "*"
  /\ invocations = 2
  /\ ~pendingBoundarySeparator

\* the position in out of the first text yielded after the tool call of
\* model call n: its carry-over, or what model call n + 1 yields (0: none)
AfterSeam(n) ==
  LET after == {j \in 1..Len(out) :
                  \/ out[j].call = n /\ out[j].site = "carry"
                  \/ out[j].call > n}
  IN IF after = {} THEN 0 ELSE Least(after)

\* the last character yielded before position j of out, "" when there is none
LastBefore(j) ==
  LET before == Flat([i \in 1..(j - 1) |-> out[i].text])
  IN IF before = <<>> THEN "" ELSE before[Len(before)]

\* C27: at the seam of every tool call, the last character yielded before it
\* and the first one yielded after it have exactly one space between them
\* when they are the same paired marker and nothing otherwise, and the
\* response after the seam gets one separator at most.
C27_OneSeparatorPerSeam ==
  \A n \in 1..invocations :
    ((\E e \in 1..Len(execLog) : execLog[e].call = n) /\ AfterSeam(n) # 0) =>
      LET j == AfterSeam(n)
          first == IF out[j].site = "sep" THEN out[j + 1].text[1] ELSE out[j].text[1]
      IN /\ (out[j].site = "sep")
              <=> (LastBefore(j) = first /\ first \in PairedMarkers)
         /\ out[j].site = "sep" => out[j].text = <<" ">>
         /\ Cardinality({i \in 1..Len(out) :
                           out[i].site = "sep" /\ out[i].call = n + 1}) <= 1


\* C28: contentAcc changes only in a step of the stream consumer, and only by
\* growing at its end; the pusher never writes it, and whatever the pusher is
\* doing (sleeping, or waiting for a reply or an edit to settle) the consumer
\* can append the next fragment of a running attempt
C28_ConsumerAloneAppends ==
  [][/\ (attemptPc = "running" /\ pushStream # <<>>) => ENABLED ConsumeFragment
     /\ (contentAcc' # contentAcc /\ attemptNo' = attemptNo) =>
          /\ pushStream' = Tail(pushStream)
          /\ contentAcc' = contentAcc \o Head(pushStream)
          /\ UNCHANGED <<pusherPc, responseQueue, pushIndex, pendingDescription,
                         sentDescriptions, outstanding>>]_vars

\* the consumer has appended a fragment while an update of the pusher was
\* still waiting to settle
C28_Witness ==
  /\ attemptPc = "running"
  /\ pusherPc = "update"
  /\ outstanding # <<>>
  /\ Len(contentAcc) > Len(Flat(responseQueue))

\* C29: at most one reply or edit is unsettled at any moment, hence at most
\* one per chunk message, and a pass of the pusher's loop starts only when
\* none is
C29_OneOutstandingUpdate ==
  /\ Len(outstanding) <= 1
  /\ \A a, b \in 1..Len(outstanding) : outstanding[a] = outstanding[b] => a = b
  /\ pusherPc = "tick" => outstanding = <<>>

\* a later pass of the loop is editing a chunk message an earlier pass created
C29_Witness ==
  /\ pusherPc = "update"
  /\ outstanding = <<pushIndex>>
  /\ pushIndex <= Len(sentDescriptions)

\* C30: an attempt that ends with an empty contentAcc never succeeds: it is
\* run again while i + 1 < maxRetry, and otherwise the turn fails
C30_EmptyAttemptFails ==
  [][(attemptPc = "running" /\ ~streaming /\ pusherPc = "exited" /\ Len(contentAcc) = 0) =>
       /\ attemptPc' # "succeeded"
       /\ attemptNo + 1 < MaxRetry => (attemptPc' = "running" /\ attemptNo' = attemptNo + 1)
       /\ attemptNo + 1 >= MaxRetry => attemptPc' = "failed"]_vars

\* a second attempt is running after the first one ended with no content
C30_Witness ==
  /\ attemptNo = 1
  /\ attemptPc \in {"running", "succeeded", "failed"}
  /\ sentDescriptions # <<>>


\* C31: when the turn was cancelled while tool.execute was awaited, the
\* settling of that call appends nothing to messages and the loop does not
\* go on to call streamText again
C31_CancelDiscardsToolResult ==
  [][(cancelledDuring = "exec" /\ phase = "exec") =>
       (messages' = messages /\ phase' # "invoke")]_vars


\* C32: no entry written to the log for a tool call contains the input of
\* the call, whatever the logger's level
C32_LogsHoldNoPayload ==
  \A e \in 1..Len(logs), c \in 1..Len(toolCalls) :
     ~Contains(logs[e].message, toolCalls[c].input)


\* the parts that hold the key k, whatever its value
Containing(k) ==
  {n \in 1..Len(mergeParts) : mergeParts[n].defined /\ k \in DOMAIN mergeParts[n].entries}

\* C33 as stated: every key that some part contains has, in the result, the
\* value the last part containing it gives it
C33_LastContainingPartWins ==
  mergePc = "returned" =>
    \A k \in {"a", "b"} :
      Containing(k) # {} =>
        /\ mergeOut.defined
        /\ k \in DOMAIN mergeOut.entries
        /\ mergeOut.entries[k] = mergeParts[Greatest(Containing(k))].entries[k]

\* the parts that give the key k a value other than null
Assigning(k) == {n \in Containing(k) : mergeParts[n].entries[k] # "null"}

\* C33, amended: the result holds exactly the keys that some part gives a
\* value other than null or undefined, each with the value of the last such
\* part, the result is undefined when there is no such key, and the call
\* leaves the parts as they were
C33_LastAssigningPartWins ==
  [][mergePc' = "returned" /\ mergePc = "call" =>
       /\ mergeParts' = mergeParts
       /\ mergeOut'.defined <=> \E k \in {"a", "b"} : Assigning(k) # {}
       /\ \A k \in {"a", "b"} :
            IF Assigning(k) = {} THEN k \notin DOMAIN mergeOut'.entries
            ELSE /\ k \in DOMAIN mergeOut'.entries
                 /\ mergeOut'.entries[k] = mergeParts[Greatest(Assigning(k))].entries[k]]_vars

\* a call has returned in which a later part overrode the value of a key and
\* a null of the last part left another key's value standing
C33_Witness ==
  /\ mergePc = "returned"
  /\ Len(mergeParts) = 2
  /\ mergeParts[1].defined /\ mergeParts[2].defined
  /\ DOMAIN mergeParts[1].entries = {"a", "b"}
  /\ DOMAIN mergeParts[2].entries = {"a", "b"}
  /\ mergeParts[1].entries["a"] = "v1" /\ mergeParts[2].entries["a"] = "v2"
  /\ mergeParts[1].entries["b"] = "v1" /\ mergeParts[2].entries["b"] = "null"
  /\ mergeOut.entries = [k \in {"a", "b"} |-> IF k = "a" THEN "v2" ELSE "v1"]


\* max(1, max_retry), 3 standing for a max_retry that is not set
AttemptLimit ==
  IF max_retry = <<>> THEN 3 ELSE IF max_retry[1] > 1 THEN max_retry[1] ELSE 1

\* C34: the attempts of one message number between 1 and max(1, max_retry),
\* 3 standing for a max_retry that is not set; nothing is attempted after an
\* attempt has succeeded, and when the last attempt fails the handler ends
\* with the error logged
C34_AttemptsBounded ==
  [][/\ attemptNo' + 1 >= 1
     /\ attemptNo' + 1 <= AttemptLimit
     /\ (attemptPc # "failed" /\ attemptPc' = "failed") =>
          /\ attemptNo' + 1 = AttemptLimit
          /\ logs' = Append(logs, [level |-> "error",
                                   message |-> <<"Error while generating response">>])
     /\ (attemptPc \in {"succeeded", "failed"}) =>
          (attemptPc' = attemptPc /\ attemptNo' = attemptNo)]_vars

\* with max_retry not set, the third attempt has failed and the handler is over
C34_Witness ==
  /\ max_retry = <<>>
  /\ attemptPc = "failed"
  /\ attemptNo = 2
  /\ Len(logs) = 3


\* the descriptions the chunk messages hold when every chunk of contentAcc is
\* shown without the streaming indicator
FinalDescriptions ==
  LET final == chunkRawDisplayChunks(contentAcc, Max(1, PushMaxLength), FALSE)
  IN [k \in 1..Len(final) |-> [text |-> final[k], indicator |-> FALSE]]

C36_ThrownStreamEndsAttempt ==
  streamThrew ~> (~streaming \/ ~streamThrew \/ attemptPc # "running")


\* C38: when the handler of a message is over, after a success or after the
\* last failure, with the cancel button pressed or not, the id of its
\* generation is no longer in cancellationMap; the id is in the map only
\* while an attempt of its turn is running
C38_MapHoldsRunningTurnsOnly ==
  /\ attemptPc \in {"succeeded", "failed"} => GenerationId \notin cancellationMap
  /\ GenerationId \in cancellationMap => attemptPc = "running"

\* the handler is over after a turn that was never cancelled
C38_Witness ==
  /\ attemptPc \in {"succeeded", "failed"}
  /\ ~aborted
  /\ cancellationMap = {}


\* C37: when textStreamOut has dealt with response n, carry-over included,
\* what it has yielded for it (separators aside) is the response without the
\* matched tag, or the whole response when no tag was matched: every other
\* character once, in the order of arrival
C37_EveryCharacterOnce ==
  (impl = "text" /\ invocations >= 1 /\ phase \in {"invoke", "done"}) =>
    LET yielded == Flat(PiecesOf(invocations, {"chunk", "malformed", "eos", "carry"}))
    IN IF toolMatch.found
       THEN \E i \in 0..(Len(resp) - Len(toolMatch.full)) :
              /\ StartsWithAt(resp, i + 1, toolMatch.full)
              /\ yielded = SubSeq(resp, 1, i)
                             \o SubSeq(resp, i + Len(toolMatch.full) + 1, Len(resp))
       ELSE yielded = resp

\* C39: a user who is not an admin and whose id is in users.blocked_ids, or
\* who holds a role in roles.blocked_ids, is never granted permission,
\* whatever the allow-lists contain
C39_BlockedIsRefused ==
  (/\ permissionPc = "returned"
   /\ permission.messageAuthorId \notin permission.adminIds
   /\ \/ permission.messageAuthorId \in permission.blockedUserIds
      \/ permission.roleIds \cap permission.blockedRoleIds # {})
  => ~permitted

\* C40: at most one caller holds the lock at a time, and the lock is marked
\* locked whenever a caller holds it or has been handed it
C40_MutualExclusion ==
  lockPc # <<>> =>
    /\ Cardinality({c \in LockCallers : lockPc[c] \in {"holding", "resumed"}}) <= 1
    /\ (\E c \in LockCallers : lockPc[c] \in {"holding", "resumed"}) => locked

\* a waiter has been handed the lock and has not resumed yet, and every other
\* caller, the one that released included, has called acquire since and waits
C40_Witness ==
  /\ lockPc # <<>>
  /\ \E c \in LockCallers :
       /\ lockPc[c] = "resumed"
       /\ \A d \in LockCallers \ {c} : lockPc[d] = "waiting"

====
